---------------------------- MODULE Spec2Model ----------------------------
(***************************************************************************)
(* A model of the structural similarity engine of web-template-forensics:  *)
(* the file matching cascade and per-type aggregation (core/file_matcher), *)
(* the tree alignment comparator (core/structure_comparator), the markup   *)
(* parser's output shape (core/html_parser, core/jsx_treesitter_parser)    *)
(* and the script logic comparator (core/js_logic_analyzer).               *)
(*                                                                         *)
(* Scores are Python floats in the source.  They are modelled as exact     *)
(* fractions <<numerator, denominator>>; every threshold comparison the    *)
(* model makes within its bounds was compared against float arithmetic.    *)
(***************************************************************************)
EXTENDS Integers, Sequences, FiniteSets, TLC

\* ------------------------------------------------------------------------
\* Bounds of the model (not program constants)
\* ------------------------------------------------------------------------

\* Largest number of files of one type on one side of a comparison.
MaxFiles == 2

\* Largest number of files of one type on both sides together.
MaxTotal == 3

\* Largest number of children of an element of a modelled markup tree.
MaxKids == 2

\* ------------------------------------------------------------------------
\* Fractions
\* ------------------------------------------------------------------------

RECURSIVE GCD(_, _)
GCD(a, b) == IF b = 0 THEN a ELSE GCD(b, a % b)

Reduce(n, d, g) == IF g = 0 THEN <<0, 1>> ELSE <<n \div g, d \div g>>

Q(n, d) == Reduce(n, d, GCD(n, d))

Zero == <<0, 1>>

One == <<1, 1>>

QAdd(a, b) == Q(a[1] * b[2] + b[1] * a[2], a[2] * b[2])

QMul(a, b) == Q(a[1] * b[1], a[2] * b[2])

QDivInt(a, n) == Q(a[1], a[2] * n)

QLt(a, b) == a[1] * b[2] < b[1] * a[2]

QLe(a, b) == a[1] * b[2] <= b[1] * a[2]

QMin(a, b) == IF QLe(a, b) THEN a ELSE b

\* The sum of s[lo..hi], by halves.
RECURSIVE SumOf(_, _, _)
SumOf(s, lo, hi) ==
    IF lo > hi THEN Zero
    ELSE IF lo = hi THEN QAdd(s[lo], Zero)
    ELSE QAdd(SumOf(s, lo, (lo + hi) \div 2), SumOf(s, (lo + hi) \div 2 + 1, hi))

QSum(s) == SumOf(s, 1, Len(s))

\* Python's round(x, 2): the nearest hundredth, an exact tie going to the even one.
Round2(q) ==
    LET n == q[1] * 100
        k == n \div q[2]
        r == n % q[2]
        up == (2 * r > q[2]) \/ (2 * r = q[2] /\ k % 2 = 1)
    IN Q(IF up THEN k + 1 ELSE k, 100)

\* The side of the exact value a binary floating-point result lies on.
FloatErrors == {"below", "above"}

\* round(x, 2) of a weighted sum computed in binary floating point: the
\* weights 0.35, 0.15 and 0.2 have no exact double, so at a decimal tie the
\* computed double lies just below or just above it and rounds that way.
RoundFloat2(q, err) ==
    LET n == q[1] * 100
        k == n \div q[2]
        r == n % q[2]
        up == (2 * r > q[2]) \/ (2 * r = q[2] /\ err = "above")
    IN Q(IF up THEN k + 1 ELSE k, 100)

\* Python's round(x, 3).
Round3(q) ==
    LET n == q[1] * 1000
        k == n \div q[2]
        r == n % q[2]
        up == (2 * r > q[2]) \/ (2 * r = q[2] /\ k % 2 = 1)
    IN Q(IF up THEN k + 1 ELSE k, 1000)

\* ------------------------------------------------------------------------
\* Sequence helpers
\* ------------------------------------------------------------------------

Range(s) == {s[i] : i \in DOMAIN s}

RECURSIVE SetToSeq(_)
SetToSeq(S) == IF S = {} THEN <<>> ELSE LET x == CHOOSE y \in S : TRUE IN <<x>> \o SetToSeq(S \ {x})

\* Every ordering of a finite set: the orders in which a Python set may be iterated.
Perms(S) == {p \in [1..Cardinality(S) -> S] : \A x \in S : \E i \in DOMAIN p : p[i] = x}

SelectSeq2(s, Test(_)) == SelectSeq(s, Test)

Get(node, key, default) == IF key \in DOMAIN node THEN node[key] ELSE default

\* ------------------------------------------------------------------------
\* difflib.SequenceMatcher (no junk; autojunk only acts on sequences of 200+)
\* ------------------------------------------------------------------------

\* Length of the common run of a and b starting at a[i], b[j], within a[..ahi], b[..bhi].
RECURSIVE CommonRun(_, _, _, _, _, _)
CommonRun(a, b, i, j, ahi, bhi) ==
    IF i > ahi \/ j > bhi \/ a[i] /= b[j] THEN 0
    ELSE 1 + CommonRun(a, b, i + 1, j + 1, ahi, bhi)

\* find_longest_match on a[alo..ahi], b[blo..bhi] (1-based, inclusive): the longest
\* block, of those the one starting earliest in a, of those the earliest in b.
Runs(a, b, alo, ahi, blo, bhi) ==
    {<<i, j, CommonRun(a, b, i, j, ahi, bhi)>> : i \in alo..ahi, j \in blo..bhi}

MinOf(S) == CHOOSE x \in S : \A y \in S : x <= y

MaxOf(S) == CHOOSE x \in S : \A y \in S : y <= x

EarliestInB(runs, best, i) ==
    <<i, MinOf({r[2] : r \in {x \in runs : x[3] = best /\ x[1] = i}}), best>>

EarliestOf(runs, best, alo, blo) ==
    IF best = 0 THEN <<alo, blo, 0>>
    ELSE EarliestInB(runs, best, MinOf({r[1] : r \in {x \in runs : x[3] = best}}))

LongestOf(runs, alo, blo) ==
    IF runs = {} THEN <<alo, blo, 0>>
    ELSE EarliestOf(runs, MaxOf({r[3] : r \in runs}), alo, blo)

find_longest_match(a, b, alo, ahi, blo, bhi) ==
    LongestOf(Runs(a, b, alo, ahi, blo, bhi), alo, blo)

\* get_matching_blocks, as the set of index pairs <<i, j>> the blocks cover.
RECURSIVE get_matching_blocks(_, _, _, _, _, _)
RECURSIVE BlocksAround(_, _, _, _, _, _, _)
get_matching_blocks(a, b, alo, ahi, blo, bhi) ==
    IF alo > ahi \/ blo > bhi THEN {}
    ELSE BlocksAround(a, b, alo, ahi, blo, bhi, find_longest_match(a, b, alo, ahi, blo, bhi))

\* The block m = <<i, j, k>> and the blocks to its left and to its right.
BlocksAround(a, b, alo, ahi, blo, bhi, m) ==
    IF m[3] = 0 THEN {}
    ELSE get_matching_blocks(a, b, alo, m[1] - 1, blo, m[2] - 1)
         \cup {<<m[1] + t, m[2] + t>> : t \in 0..(m[3] - 1)}
         \cup get_matching_blocks(a, b, m[1] + m[3], ahi, m[2] + m[3], bhi)

MatchedPairs(a, b) == get_matching_blocks(a, b, 1, Len(a), 1, Len(b))

\* SequenceMatcher(None, a, b).ratio(): 2 * matches / total length, 1.0 for two empty.
ratio(a, b) ==
    IF Len(a) + Len(b) = 0 THEN One
    ELSE Q(2 * Cardinality(MatchedPairs(a, b)), Len(a) + Len(b))

\* ------------------------------------------------------------------------
\* Markup documents as BeautifulSoup hands them to HTMLParser, and the parser
\* ------------------------------------------------------------------------

\* Largest number of nodes below the document root of a modelled markup file.
MaxNodes == 3

Tags == {"div", "script"}

\* Text of a NavigableString, as characters; the last one is whitespace only.
Texts == {<<"H", "i">>, <<"H", "o">>, <<" ">>}

\* Attribute dictionaries of a tag in source order: name, then a token list
\* (class is multi-valued in BeautifulSoup) or a plain string.
SoupAttrs ==
    { <<>>,
      << <<"class", [kind |-> "list", v |-> <<"a", "b">>]>> >>,
      << <<"id", [kind |-> "str", v |-> <<"x">>]>>,
         <<"class", [kind |-> "list", v |-> <<"a", "b">>]>> >> }

SoupText(c) == [name |-> "None", text |-> c]

SoupTag(t, a, k) == [name |-> t, attrs |-> a, children |-> k]

\* Sequences of at most k soup nodes with n nodes in all, and soup nodes of n nodes.
RECURSIVE SoupForests(_, _), SoupNodes(_)
SoupForests(n, k) ==
    IF n = 0 THEN {<<>>}
    ELSE IF k = 0 THEN {}
    ELSE UNION {{<<h>> \o r : h \in SoupNodes(m), r \in SoupForests(n - m, k - 1)} : m \in 1..n}

SoupNodes(n) ==
    (IF n = 1 THEN {SoupText(c) : c \in Texts} ELSE {})
    \cup {SoupTag(t, a, k) : t \in Tags, a \in SoupAttrs, k \in SoupForests(n - 1, MaxKids)}

\* The soup of a file: the "[document]" root over its top-level nodes.
Soups == UNION {{SoupTag("[document]", <<>>, k) : k \in SoupForests(n, MaxKids)} : n \in 0..MaxNodes}

\* str.strip() on a text of the model: whitespace-only text becomes empty.
RECURSIVE lstrip(_)
lstrip(c) == IF c /= <<>> /\ Head(c) = " " THEN lstrip(Tail(c)) ELSE c

RECURSIVE rstrip(_)
rstrip(c) == IF c /= <<>> /\ c[Len(c)] = " " THEN rstrip(SubSeq(c, 1, Len(c) - 1)) ELSE c

strip(c) == rstrip(lstrip(c))

\* HTMLParser._parse_attributes: the attrs dictionary, in insertion order.
RECURSIVE _parse_attributes(_)
_parse_attributes(a) ==
    IF a = <<>> THEN <<>>
    ELSE LET key == Head(a)[1]
             value == Head(a)[2]
             parsed == IF key = "class" /\ value.kind /= "list"
                       THEN [kind |-> "list", v |-> value.v]
                       ELSE value
         IN << <<key, parsed>> >> \o _parse_attributes(Tail(a))

_parse_text(node) == [type |-> "text", content |-> strip(node.text)]

\* HTMLParser._parse_node: a text node, None (here <<>>) for empty text, else an element.
RECURSIVE _parse_node(_), _parse_children(_)
_parse_children(kids) ==
    IF kids = <<>> THEN <<>>
    ELSE LET child_node == _parse_node(Head(kids))
         IN (IF DOMAIN child_node /= {} THEN <<child_node>> ELSE <<>>)
            \o _parse_children(Tail(kids))

_parse_node(node) ==
    IF node.name = "None"
    THEN IF strip(node.text) /= <<>> THEN _parse_text(node) ELSE <<>>
    ELSE [type |-> "element", tag |-> node.name,
          attrs |-> _parse_attributes(node.attrs),
          children |-> _parse_children(node.children)]

\* HTMLParser.parse: the tree of the document root (the model has no <body>).
parse(soup) == _parse_node(soup)

\* ------------------------------------------------------------------------
\* StructureComparator
\* ------------------------------------------------------------------------

\* A similarity that does not apply (Python None).
NoneQ == <<0, 0>>

EmptyTree == <<>>

\* Truth value of a tree argument: None and {} are false.
Truthy(tree) == DOMAIN tree /= {}

Keys(attrs) == {attrs[i][1] : i \in DOMAIN attrs}

Value(attrs, name) == attrs[CHOOSE i \in DOMAIN attrs : attrs[i][1] = name][2]

lower(t) == IF t = "DIV" THEN "div" ELSE IF t = "SCRIPT" THEN "script" ELSE t

\* A key of type, tag and text content that leaves the attributes out.
KeyWithoutAttributes(node) ==
    << Get(node, "type", ""),
       Get(node, "tag", ""),
       {},
       IF Get(node, "type", "None") = "text" THEN Get(node, "content", <<>>) ELSE <<>> >>

\* NodeWrapper._create_hash_key: type, tag, the sorted attribute items, text content.
_create_hash_key(node) ==
    << Get(node, "type", ""),
       Get(node, "tag", ""),
       Range(Get(node, "attrs", <<>>)),
       IF Get(node, "type", "None") = "text" THEN Get(node, "content", <<>>) ELSE <<>> >>

\* _values_match on two lists or strings: equal as sets of tokens.
_values_match(html_value, jsx_value) == Range(html_value.v) = Range(jsx_value.v)

\* A variant of _compare_attributes that counts total once per side instead
\* of once per name of the union.
AttributesOverBothSides(html_attrs, jsx_attrs) ==
    IF Keys(html_attrs) \cup Keys(jsx_attrs) = {} THEN One
    ELSE Q(Cardinality({name \in Keys(html_attrs) \cap Keys(jsx_attrs) :
                           Range(Value(html_attrs, name).v) = Range(Value(jsx_attrs, name).v)}),
           Cardinality(Keys(html_attrs)) + Cardinality(Keys(jsx_attrs)))

\* _compare_attributes: matches over the union of the attribute names, 1.0 over none.
_compare_attributes(html_attrs, jsx_attrs) ==
    LET all_keys == Keys(html_attrs) \cup Keys(jsx_attrs)
        matching == {name \in Keys(html_attrs) \cap Keys(jsx_attrs) :
                        _values_match(Value(html_attrs, name), Value(jsx_attrs, name))}
    IN IF all_keys = {} THEN One ELSE Q(Cardinality(matching), Cardinality(all_keys))

_fuzzy_text_similarity(a, b) == ratio(a, b)

\* _get_single_text_content: the text of a sole text child, else None (here "None").
HasSingleText(children) == Len(children) = 1 /\ Get(children[1], "type", "None") = "text"

_get_single_text_content(children) == strip(Get(children[1], "content", <<>>))

Comparison(type, html, jsx, attr_sim, text_sim) ==
    [type |-> type, html |-> html, jsx |-> jsx,
     attribute_similarity |-> attr_sim, text_similarity |-> text_sim]

RECURSIVE _compare_nodes(_, _), _compare_children(_, _), CompareBlocks(_, _, _, _)
RECURSIVE ElementComparison(_, _, _, _, _)

\* The comparison of two text nodes.
TextComparison(html_node, jsx_node, text_similarity) ==
    IF text_similarity = One
    THEN <<Comparison("match", html_node, jsx_node, NoneQ, text_similarity)>>
    ELSE <<Comparison("different", html_node, jsx_node, One, text_similarity)>>

\* The comparison of two elements of the same tag, given their similarities.
OwnComparison(html_node, jsx_node, attr_similarity, text_similarity) ==
    IF attr_similarity = One /\ (text_similarity = NoneQ \/ text_similarity = One)
    THEN Comparison("match", html_node, jsx_node, attr_similarity, text_similarity)
    ELSE Comparison("different", html_node, jsx_node, attr_similarity, text_similarity)

\* Two elements of the same tag: their own comparison, then their children's
\* unless each has a single text child, which is compared in place.
ElementComparison(html_node, jsx_node, attr_similarity, html_children, jsx_children) ==
    IF HasSingleText(html_children) /\ HasSingleText(jsx_children)
    THEN <<OwnComparison(html_node, jsx_node, attr_similarity,
                         _fuzzy_text_similarity(_get_single_text_content(html_children),
                                                _get_single_text_content(jsx_children)))>>
    ELSE <<OwnComparison(html_node, jsx_node, attr_similarity, NoneQ)>>
         \o _compare_children(html_children, jsx_children)

\* _compare_nodes: the comparisons appended for one pair of nodes, in order.
_compare_nodes(html_node, jsx_node) ==
    IF Get(html_node, "type", "None") = "text" /\ Get(jsx_node, "type", "None") = "text"
    THEN TextComparison(html_node, jsx_node,
                        _fuzzy_text_similarity(strip(Get(html_node, "content", <<>>)),
                                               strip(Get(jsx_node, "content", <<>>))))
    ELSE IF Get(html_node, "tag", "None") = "script" /\ Get(jsx_node, "tag", "None") = "script"
    THEN <<Comparison("match", html_node, jsx_node, One, One)>>
    ELSE IF lower(Get(html_node, "tag", "")) = lower(Get(jsx_node, "tag", ""))
    THEN ElementComparison(html_node, jsx_node,
                           _compare_attributes(Get(html_node, "attrs", <<>>),
                                               Get(jsx_node, "attrs", <<>>)),
                           Get(html_node, "children", <<>>), Get(jsx_node, "children", <<>>))
    ELSE <<Comparison("different", html_node, jsx_node, Zero, Zero)>>

\* The recursive comparisons of the aligned pairs, by increasing index.
CompareBlocks(html_children, jsx_children, pairs, i) ==
    IF i > Len(html_children) THEN <<>>
    ELSE (IF \E p \in pairs : p[1] = i
          THEN _compare_nodes(html_children[i],
                              jsx_children[(CHOOSE p \in pairs : p[1] = i)[2]])
          ELSE <<>>)
         \o CompareBlocks(html_children, jsx_children, pairs, i + 1)

\* The positions of a child list that no aligned pair covers, in order.
Unaligned(children, aligned) ==
    SelectSeq([i \in DOMAIN children |-> i], LAMBDA i : i \notin aligned)

MissingComparisons(html_children, missing) ==
    [x \in DOMAIN missing |->
        Comparison("missing", html_children[missing[x]], EmptyTree, NoneQ, NoneQ)]

ExtraComparisons(jsx_children, extra) ==
    [x \in DOMAIN extra |->
        Comparison("extra", EmptyTree, jsx_children[extra[x]], NoneQ, NoneQ)]

\* The comparisons of the aligned pairs, then one "missing" per unaligned
\* original child and one "extra" per unaligned candidate child.
AlignedComparisons(html_children, jsx_children, pairs) ==
    CompareBlocks(html_children, jsx_children, pairs, 1)
    \o MissingComparisons(html_children, Unaligned(html_children, {p[1] : p \in pairs}))
    \o ExtraComparisons(jsx_children, Unaligned(jsx_children, {p[2] : p \in pairs}))

\* _compare_children: align the children by hash key, compare the aligned pairs,
\* then one "missing" per unaligned original child and one "extra" per candidate child.
_compare_children(html_children, jsx_children) ==
    AlignedComparisons(html_children, jsx_children,
                       MatchedPairs([i \in DOMAIN html_children |-> _create_hash_key(html_children[i])],
                                    [j \in DOMAIN jsx_children |-> _create_hash_key(jsx_children[j])]))

\* The score one comparison contributes.
ElementScore(comp) ==
    IF comp.type = "match" THEN One
    ELSE IF comp.type = "different"
    THEN LET attr_score == comp.attribute_similarity
             text_score == IF comp.text_similarity = NoneQ THEN One ELSE comp.text_similarity
         IN QMin(QAdd(QDivInt(attr_score, 2), QDivInt(text_score, 2)), One)
    ELSE Zero

OfType(comps, type) == SelectSeq(comps, LAMBDA c : c.type = type)

PairsOf(comps) == [i \in DOMAIN comps |-> <<comps[i].html, comps[i].jsx>>]

\* The comparisons compare_structures collects.
RootComparisons(html_tree, jsx_tree) ==
    IF Truthy(html_tree) /\ Truthy(jsx_tree) THEN _compare_nodes(html_tree, jsx_tree)
    ELSE (IF Truthy(html_tree)
          THEN <<Comparison("missing", html_tree, EmptyTree, NoneQ, NoneQ)>> ELSE <<>>)
         \o (IF Truthy(jsx_tree)
             THEN <<Comparison("extra", EmptyTree, jsx_tree, NoneQ, NoneQ)>> ELSE <<>>)

\* sum(element_scores) / len(element_scores) if element_scores else 0.0
MeanScore(element_scores) ==
    IF element_scores /= <<>>
    THEN QDivInt(QSum(element_scores), Len(element_scores)) ELSE Zero

ComparisonResult(element_comparisons) ==
    [similarity_score |->
        MeanScore([i \in DOMAIN element_comparisons |-> ElementScore(element_comparisons[i])]),
     matching_elements |-> PairsOf(OfType(element_comparisons, "match")),
     different_elements |-> PairsOf(OfType(element_comparisons, "different")),
     missing_elements |-> [i \in DOMAIN OfType(element_comparisons, "missing") |->
                             OfType(element_comparisons, "missing")[i].html],
     extra_elements |-> [i \in DOMAIN OfType(element_comparisons, "extra") |->
                           OfType(element_comparisons, "extra")[i].jsx]]

compare_structures(html_tree, jsx_tree) ==
    ComparisonResult(RootComparisons(html_tree, jsx_tree))

\* ------------------------------------------------------------------------
\* Files of the two project directories
\* ------------------------------------------------------------------------

file_types == {"html", "css", "jsx", "js"}

\* The extension list_files_by_type sorts a file by, as characters.
Ext(filetype) ==
    CASE filetype = "html" -> <<".", "h", "t", "m", "l">>
      [] filetype = "css" -> <<".", "c", "s", "s">>
      [] filetype = "jsx" -> <<".", "j", "s", "x">>
      [] OTHER -> <<".", "j", "s">>

\* Relative paths of the model: the directory segments and the file name's stem.
PathUniverse ==
    { [dir |-> <<>>, stem |-> <<"x">>],
      [dir |-> <<"a">>, stem |-> <<"x">>],
      [dir |-> <<"a">>, stem |-> <<"y", "z">>],
      [dir |-> <<"a">>, stem |-> <<"u", "v">>] }

\* What a file holds: 0 cannot be read as UTF-8 text, the others index the
\* contents of the file's type below.
Bodies == {0, 1, 2}

Readable(body) == body /= 0

\* os.path.basename of a relative path.
basename(path, filetype) ==
    path.stem \o (IF "ext" \in DOMAIN path THEN path.ext ELSE Ext(filetype))

\* path.split(os.sep)
split(path, filetype) ==
    (IF "folders" \in DOMAIN path THEN path.folders
     ELSE [i \in 1..Len(path.dir) |-> <<path.dir[i]>>])
    \o <<basename(path, filetype)>>

RECURSIVE join(_)
join(parts) ==
    IF parts = <<>> THEN <<>>
    ELSE IF Len(parts) = 1 THEN parts[1]
    ELSE parts[1] \o <<"/">> \o join(Tail(parts))

\* The relative path as the string the code holds.
PathStr(path, filetype) == join(split(path, filetype))

startswith(s, prefix) ==
    Len(prefix) <= Len(s) /\ \A i \in DOMAIN prefix : s[i] = prefix[i]

\* os.walk lists a directory's own files before those of its subdirectories.
WalkOrder(files) ==
    \A i, j \in DOMAIN files : i < j => Len(files[i].path.dir) <= Len(files[j].path.dir)

\* The listings of one type a directory can have: distinct paths, in walk order.
Listings ==
    {fs \in UNION {[1..n -> [path : PathUniverse, body : Bodies]] : n \in 0..MaxFiles} :
        /\ \A i, j \in DOMAIN fs : i /= j => fs[i].path /= fs[j].path
        /\ WalkOrder(fs)}

PathsOf(files) == [i \in DOMAIN files |-> files[i].path]

\* The content at a relative path of a directory.
BodyAt(dir, path) == (CHOOSE f \in Range(dir) : f.path = path).body

\* ------------------------------------------------------------------------
\* Matching stages of core/file_matcher.py
\* ------------------------------------------------------------------------

\* The first index holding the greatest score, 0 when no score exceeds 0:
\* "if score > best_score" starting from best_score = 0.
BestIndex(scores) ==
    IF \E j \in DOMAIN scores : QLt(Zero, scores[j])
    THEN CHOOSE j \in DOMAIN scores :
            /\ \A k \in DOMAIN scores : QLe(scores[k], scores[j])
            /\ \A k \in DOMAIN scores : k < j => QLt(scores[k], scores[j])
    ELSE 0

Used(matches) == {matches[i][2] : i \in DOMAIN matches}

NotUsed(files2, used2) == SelectSeq(files2, LAMBDA f2 : f2 \notin used2)

\* exact_path_match: the pairs with the same path and the originals left, in order.
ExactMatches(files1, files2) ==
    LET hit == SelectSeq(files1, LAMBDA f1 : f1 \in Range(files2))
    IN [i \in DOMAIN hit |-> <<hit[i], hit[i]>>]

ExactUnmatched1(files1, files2) == SelectSeq(files1, LAMBDA f1 : f1 \notin Range(files2))

\* exact_path_match returns list(unmatched2) of a set: any iteration order.
ExactUnmatched2(files1, files2) == Perms(Range(files2) \ Range(files1))

\* fuzzy_filename_match: greedy best basename ratio, accepted from 0.75.
\* The end of one turn of a greedy loop: the match appended for f1 when its
\* best candidate, the first of the highest positive score, reaches the threshold.
ClaimBest(matches, f1, cands, scores, best, threshold) ==
    IF best /= 0 /\ QLe(threshold, scores[best])
    THEN Append(matches, <<f1, cands[best], scores[best]>>)
    ELSE matches

Claimed(matches, f1, cands, scores, threshold) ==
    ClaimBest(matches, f1, cands, scores, BestIndex(scores), threshold)

FuzzyStep(matches, f1, cands, filetype) ==
    Claimed(matches, f1, cands,
            [j \in DOMAIN cands |->
                ratio(basename(f1, filetype), basename(cands[j], filetype))],
            <<3, 4>>)

RECURSIVE fuzzy_loop(_, _, _, _)
fuzzy_loop(rest1, files2, filetype, matches) ==
    IF rest1 = <<>> THEN matches
    ELSE fuzzy_loop(Tail(rest1), files2, filetype,
                    FuzzyStep(matches, Head(rest1), NotUsed(files2, Used(matches)), filetype))

fuzzy_filename_match(files1, files2, filetype) == fuzzy_loop(files1, files2, filetype, <<>>)

Originals(matches) == {matches[i][1] : i \in DOMAIN matches}

\* ------------------------------------------------------------------------
\* core/css_style_checker.py
\* ------------------------------------------------------------------------

\* A stylesheet is a sequence of qualified rules, each a selector and its
\* declarations; the file holds its text.
Rule(sel, decls) == [sel |-> sel, decls |-> decls]

Decl(prop, val) == [prop |-> prop, val |-> val]

RECURSIVE DeclsText(_)
DeclsText(decls) ==
    IF decls = <<>> THEN <<>>
    ELSE Head(decls).prop \o <<":">> \o Head(decls).val
         \o (IF Len(decls) > 1 THEN <<";">> ELSE <<>>) \o DeclsText(Tail(decls))

RECURSIVE CssText(_)
CssText(sheet) ==
    IF sheet = <<>> THEN <<>>
    ELSE Head(sheet).sel \o <<"{">> \o DeclsText(Head(sheet).decls) \o <<"}">>
         \o CssText(Tail(sheet))

\* str.count of one character.
count(text, ch) == Cardinality({i \in DOMAIN text : text[i] = ch})

UpperLetters ==
    <<"A", "B", "C", "D", "E", "F", "G", "H", "I", "J", "K", "L", "M",
      "N", "O", "P", "Q", "R", "S", "T", "U", "V", "W", "X", "Y", "Z">>

LowerLetters ==
    <<"a", "b", "c", "d", "e", "f", "g", "h", "i", "j", "k", "l", "m",
      "n", "o", "p", "q", "r", "s", "t", "u", "v", "w", "x", "y", "z">>

LowerChar(ch) ==
    IF \E i \in DOMAIN UpperLetters : UpperLetters[i] = ch
    THEN LowerLetters[CHOOSE i \in DOMAIN UpperLetters : UpperLetters[i] = ch]
    ELSE ch

lower_chars(c) == [i \in DOMAIN c |-> LowerChar(c[i])]

\* An at-rule: its keyword, its prelude as serialised and stripped, and the
\* rules of its block (<<>> for an empty block or none).
AtRule(keyword, prelude, content) == [at |-> keyword, prelude |-> prelude, content |-> content]

IsQualified(rule) == "sel" \in DOMAIN rule

QualifiedRules(sheet) == SelectSeq(sheet, IsQualified)

\* A qualified rule and the table its declarations are written to: <<"rules">>,
\* <<"media", query>>, <<"supports", condition>> or <<"keyframes", name>>.
Placed(bucket, rule) == [bucket |-> bucket, rule |-> rule]

\* The merge after a recursive call: what the call returned as top-level
\* rules goes to the table of the at-rule.
Rebucket(placed, bucket) ==
    [i \in DOMAIN placed |->
        IF placed[i].bucket = <<"rules">> THEN Placed(bucket, placed[i].rule) ELSE placed[i]]

\* Where parse_css writes the declarations of a qualified rule.
PlaceQualified(rule, parent_media, parent_supports) ==
    IF parent_media /= "" /\ parent_supports /= ""
    THEN <<Placed(<<"supports", parent_supports>>, rule), Placed(<<"media", parent_media>>, rule)>>
    ELSE IF parent_media /= "" THEN <<Placed(<<"media", parent_media>>, rule)>>
    ELSE IF parent_supports /= "" THEN <<Placed(<<"supports", parent_supports>>, rule)>>
    ELSE <<Placed(<<"rules">>, rule)>>

\* The loop of parse_css over a stylesheet, recursive calls included: the
\* qualified rules in document order, each with the table it is written to.
RECURSIVE PlaceRules(_, _, _)
PlaceRule(rule, parent_media, parent_supports) ==
    IF IsQualified(rule) THEN PlaceQualified(rule, parent_media, parent_supports)
    ELSE IF rule.content = <<>> THEN <<>>
    ELSE IF rule.at = "media"
    THEN Rebucket(PlaceRules(rule.content, rule.prelude, parent_supports),
                  <<"media", rule.prelude>>)
    ELSE IF rule.at = "keyframes"
    THEN [i \in DOMAIN QualifiedRules(rule.content) |->
             Placed(<<"keyframes", rule.prelude>>, QualifiedRules(rule.content)[i])]
    ELSE IF rule.at = "supports"
    THEN Rebucket(PlaceRules(rule.content, parent_media, rule.prelude),
                  <<"supports", rule.prelude>>)
    ELSE <<>>

PlaceRules(sheet, parent_media, parent_supports) ==
    IF sheet = <<>> THEN <<>>
    ELSE PlaceRule(Head(sheet), parent_media, parent_supports)
         \o PlaceRules(Tail(sheet), parent_media, parent_supports)

\* The qualified rules written to one table, in document order.
RulesIn(placed, bucket) ==
    [i \in DOMAIN SelectSeq(placed, LAMBDA x : x.bucket = bucket) |->
        SelectSeq(placed, LAMBDA x : x.bucket = bucket)[i].rule]

\* The keys of the tables of one kind: a key exists once a declaration is written.
KeysOf(placed, kind) ==
    {placed[i].bucket[2] : i \in {j \in DOMAIN placed :
                                     /\ placed[j].bucket[1] = kind
                                     /\ placed[j].rule.decls /= <<>>}}

RECURSIVE AllDecls(_, _)
AllDecls(sheet, sel) ==
    IF sheet = <<>> THEN <<>>
    ELSE (IF strip(Head(sheet).sel) = sel THEN Head(sheet).decls ELSE <<>>)
         \o AllDecls(Tail(sheet), sel)

\* parse_css, top-level rules: selector -> property -> value, a later
\* declaration of the same property replacing an earlier one.  A selector
\* without declarations gets no entry.

PropsOf(decls) ==
    [prop \in {decls[i].prop : i \in DOMAIN decls} |->
        strip(decls[CHOOSE i \in DOMAIN decls :
                      /\ decls[i].prop = prop
                      /\ \A k \in DOMAIN decls : decls[k].prop = prop => k <= i].val)]

parse_css(sheet) ==
    [sel \in {strip(sheet[i].sel) : i \in {j \in DOMAIN sheet : sheet[j].decls /= <<>>}} |->
        PropsOf(AllDecls(sheet, sel))]

Digits == {"0", "1", "2", "3", "4", "5", "6", "7", "8", "9"}

\* The texts float() is given here: digits with at most one decimal point.
IsDecimal(c) ==
    /\ \E i \in DOMAIN c : c[i] \in Digits
    /\ \A i \in DOMAIN c : c[i] \in Digits \cup {"."}
    /\ Cardinality({i \in DOMAIN c : c[i] = "."}) <= 1

RECURSIVE StripLeadingZeros(_)
StripLeadingZeros(c) ==
    IF Len(c) > 1 /\ Head(c) = "0" THEN StripLeadingZeros(Tail(c)) ELSE c

RECURSIVE StripTrailingZeros(_)
StripTrailingZeros(c) ==
    IF Len(c) > 1 /\ c[Len(c)] = "0" THEN StripTrailingZeros(SubSeq(c, 1, Len(c) - 1)) ELSE c

\* str(float(text)) of a decimal text.
DotAt(c) ==
    IF \E i \in DOMAIN c : c[i] = "." THEN CHOOSE i \in DOMAIN c : c[i] = "." ELSE Len(c) + 1

OrZero(digits) == IF digits = <<>> THEN <<"0">> ELSE digits

FloatParts(c, dot) ==
    StripLeadingZeros(OrZero(SubSeq(c, 1, dot - 1))) \o <<".">>
    \o StripTrailingZeros(OrZero(SubSeq(c, dot + 1, Len(c))))

float_str(c) == FloatParts(c, DotAt(c))

RECURSIVE rstrip_semicolon(_)
rstrip_semicolon(c) ==
    IF c /= <<>> /\ c[Len(c)] = ";" THEN rstrip_semicolon(SubSeq(c, 1, Len(c) - 1)) ELSE c

endswith_px(c) == Len(c) >= 2 /\ c[Len(c) - 1] = "p" /\ c[Len(c)] = "x"

RECURSIVE remove_px(_)
remove_px(c) ==
    IF c = <<>> THEN <<>>
    ELSE IF Len(c) >= 2 /\ c[1] = "p" /\ c[2] = "x" THEN remove_px(SubSeq(c, 3, Len(c)))
    ELSE <<Head(c)>> \o remove_px(Tail(c))

\* #abc -> #aabbcc
ExpandHex(v) ==
    IF v /= <<>> /\ v[1] = "#" /\ Len(v) = 4
    THEN <<"#", v[2], v[2], v[3], v[3], v[4], v[4]>>
    ELSE v

\* float(v.replace('px', '')) or, when that raises, v as it is.
FloatOrSame(v, number) == IF IsDecimal(number) THEN float_str(number) ELSE v

NormalizePx(v) == IF endswith_px(v) THEN FloatOrSame(v, remove_px(v)) ELSE v

normalize_css_value(value) ==
    NormalizePx(ExpandHex(rstrip_semicolon(lower_chars(strip(value)))))

norm_sel(sel) == lower_chars(strip(sel))

\* The normalised rules of compare_rule_dicts: when two selectors normalise
\* to the same key the dict comprehension keeps one of them, the later in
\* insertion order; selectors of the model's sheets are kept in sheet order.
NormRules(rules) ==
    [k \in {norm_sel(sel) : sel \in DOMAIN rules} |->
        rules[CHOOSE sel \in DOMAIN rules : norm_sel(sel) = k]]

NormProps(props) ==
    [k \in {lower_chars(strip(p)) : p \in DOMAIN props} |->
        normalize_css_value(props[CHOOSE p \in DOMAIN props : lower_chars(strip(p)) = k])]

\* Similarity of one selector present in both sheets.
MatchShare(match_props, all_props) ==
    IF all_props = 0 THEN One ELSE Q(match_props, all_props)

\* A variant of the similarity of a selector over the property names both
\* sides hold instead of over the names of either side.
ShareOfCommonNames(norm_props1, norm_props2) ==
    MatchShare(Cardinality({p \in DOMAIN norm_props1 \cap DOMAIN norm_props2 :
                               norm_props1[p] = norm_props2[p]}),
               Cardinality(DOMAIN norm_props1 \cap DOMAIN norm_props2))

NormSimilarity(norm_props1, norm_props2) ==
    MatchShare(Cardinality({p \in DOMAIN norm_props1 \cap DOMAIN norm_props2 :
                               norm_props1[p] = norm_props2[p]}),
               Cardinality(DOMAIN norm_props1 \cup DOMAIN norm_props2))

SelectorSimilarity(props1, props2) == NormSimilarity(NormProps(props1), NormProps(props2))

\* A variant of the credit of a selector without the floor of 0.3.
CreditWithoutFloor(similarity) ==
    IF QLe(<<9, 10>>, similarity) THEN [matching |-> 1, partial |-> Zero]
    ELSE [matching |-> 0, partial |-> similarity]

\* What one selector adds to matching and to partial.
SelectorCredit(similarity) ==
    IF QLe(<<9, 10>>, similarity) THEN [matching |-> 1, partial |-> Zero]
    ELSE IF QLe(<<3, 10>>, similarity) THEN [matching |-> 0, partial |-> similarity]
    ELSE [matching |-> 0, partial |-> Zero]

AddCredit(acc, credit) ==
    [matching |-> acc.matching + credit.matching, partial |-> QAdd(acc.partial, credit.partial)]

\* The loop over the selectors of both sheets.
RECURSIVE Credits(_, _, _)
Credits(sels, norm_rules1, norm_rules2) ==
    IF sels = {} THEN [matching |-> 0, partial |-> Zero]
    ELSE AddCredit(Credits(sels \ {CHOOSE x \in sels : TRUE}, norm_rules1, norm_rules2),
                   SelectorCredit(SelectorSimilarity(norm_rules1[CHOOSE x \in sels : TRUE],
                                                     norm_rules2[CHOOSE x \in sels : TRUE])))

RuleResult(credit, total, missing, extra) ==
    [matching |-> credit.matching,
     different |-> total - credit.matching - missing - extra,
     missing |-> missing,
     extra |-> extra,
     final_score |-> IF total > 0
                     THEN QDivInt(QAdd(Q(credit.matching, 1), credit.partial), total)
                     ELSE One]

CompareNormRules(norm_rules1, norm_rules2) ==
    RuleResult(Credits(DOMAIN norm_rules1 \cap DOMAIN norm_rules2, norm_rules1, norm_rules2),
               Cardinality(DOMAIN norm_rules1 \cup DOMAIN norm_rules2),
               Cardinality(DOMAIN norm_rules1 \ DOMAIN norm_rules2),
               Cardinality(DOMAIN norm_rules2 \ DOMAIN norm_rules1))

compare_rule_dicts(rules1, rules2) == CompareNormRules(NormRules(rules1), NormRules(rules2))

\* per_selector_details of compare_rule_dicts: the similarity reported for
\* each selector of both sheets, rounded to two places.
SelectorDetails(norm_rules1, norm_rules2) ==
    [sel \in DOMAIN norm_rules1 \cap DOMAIN norm_rules2 |->
        [similarity |-> Round2(SelectorSimilarity(norm_rules1[sel], norm_rules2[sel]))]]

per_selector_details(rules1, rules2) == SelectorDetails(NormRules(rules1), NormRules(rules2))

\* The tables parse_css returns beside the top-level rules.
top_rules(css) == parse_css(RulesIn(PlaceRules(css, "", ""), <<"rules">>))

TablesOf(placed, kind) ==
    [key \in KeysOf(placed, kind) |-> parse_css(RulesIn(placed, <<kind, key>>))]

media_rules(css) == TablesOf(PlaceRules(css, "", ""), "media")

keyframes(css) == TablesOf(PlaceRules(css, "", ""), "keyframes")

supports(css) == TablesOf(PlaceRules(css, "", ""), "supports")

HexDigits == Digits \cup {"a", "b", "c", "d", "e", "f"}

RECURSIVE Doubled(_)
Doubled(c) == IF c = <<>> THEN <<>> ELSE <<Head(c), Head(c)>> \o Doubled(Tail(c))

\* normalize_color after strip, lower and the removal of spaces.
ExpandColor(v) ==
    IF /\ v /= <<>> /\ v[1] = "#" /\ Len(v) \in {4, 5}
       /\ \A i \in 2..Len(v) : v[i] \in HexDigits
    THEN <<"#">> \o Doubled(Tail(v))
    ELSE v

normalize_color(value) ==
    ExpandColor(SelectSeq(lower_chars(strip(value)), LAMBDA ch : ch /= " "))

\* The length of the leading run of digits and points of a text.
RECURSIVE NumberLen(_)
NumberLen(c) ==
    IF c /= <<>> /\ Head(c) \in Digits \cup {"."} THEN 1 + NumberLen(Tail(c)) ELSE 0

\* Whether ([+-]?\d*\.?\d+)([a-z%]*) matches the whole of an unsigned text
\* whose number part has n characters.
NumberMatches(v, n) ==
    /\ n >= 1
    /\ v[n] \in Digits
    /\ Cardinality({i \in 1..n : v[i] = "."}) <= 1
    /\ \A i \in (n + 1)..Len(v) : v[i] \in Range(LowerLetters) \cup {"%"}

\* f"{num}" of the float of a decimal text, an integral one printed as an int.
NumberText(number, parts) ==
    IF SubSeq(parts, DotAt(parts) + 1, Len(parts)) = <<"0">>
    THEN SubSeq(parts, 1, DotAt(parts) - 1)
    ELSE parts

NormalizeNumber(v, n) ==
    IF NumberMatches(v, n)
    THEN NumberText(SubSeq(v, 1, n), float_str(SubSeq(v, 1, n))) \o SubSeq(v, n + 1, Len(v))
    ELSE v

normalize_number(value) ==
    NormalizeNumber(lower_chars(strip(value)), NumberLen(lower_chars(strip(value))))

normalize_value(value) == normalize_number(normalize_color(value))

NormValues(props) == [k \in DOMAIN props |-> normalize_value(props[k])]

\* The steps of a keyframes rule of both sheets whose normalised properties differ.
StepDifferences(steps1, steps2) ==
    {step \in DOMAIN steps1 \cup DOMAIN steps2 :
        NormValues(Get(steps1, step, <<>>)) /= NormValues(Get(steps2, step, <<>>))}

compare_keyframes(kf1, kf2) ==
    [matching_keyframes |-> Cardinality(DOMAIN kf1 \cap DOMAIN kf2),
     different_keyframes |->
        Cardinality({name \in DOMAIN kf1 \cap DOMAIN kf2 :
                        StepDifferences(kf1[name], kf2[name]) /= {}}),
     missing_keyframes |-> Cardinality(DOMAIN kf1 \ DOMAIN kf2),
     extra_keyframes |-> Cardinality(DOMAIN kf2 \ DOMAIN kf1)]

\* The exception of unpacking the six values compare_rule_dicts returns into
\* five names.
ValueError == [exception |-> "ValueError"]

IsException(r) == "exception" \in DOMAIN r

\* compare_supports: the loop over the conditions of both sheets unpacks the
\* result of compare_rule_dicts and raises at the first of them.
compare_supports(s1, s2) ==
    IF DOMAIN s1 \cap DOMAIN s2 /= {} THEN ValueError
    ELSE [matching_supports |-> 0,
          missing_supports |-> Cardinality(DOMAIN s1 \ DOMAIN s2),
          extra_supports |-> Cardinality(DOMAIN s2 \ DOMAIN s1)]

MediaResult(r) ==
    [matching_selectors |-> r.matching,
     different_selectors |-> r.different,
     missing_selectors |-> r.missing,
     extra_selectors |-> r.extra,
     similarity |-> Round2(r.final_score)]

media_results(media1, media2) ==
    [mq \in DOMAIN media1 \cup DOMAIN media2 |->
        MediaResult(compare_rule_dicts(Get(media1, mq, <<>>), Get(media2, mq, <<>>)))]

\* A value is a sequence of pieces: literal text (a sequence of characters),
\* or a var() reference with its optional fallback text (<<>> when the
\* reference has none).
Lit(text) == [kind |-> "lit", name |-> text, fallback |-> <<>>]

VarRef(varname, fallback) == [kind |-> "var", name |-> varname, fallback |-> fallback]

\* f"var({varname})": the text put back for a reference that is not expanded.
Unexpanded(varname) == VarRef(varname, <<>>)

\* The set that never records a variable.
forget(names, varname) == names

\* seen.add(varname)
add(names, varname) == names \cup {varname}

\* root_vars.get(varname): <<>> for None, <<v>> for a defined value v.
get(vars_map, varname) ==
    IF varname \in DOMAIN vars_map THEN vars_map[varname] ELSE <<>>

\* resolve_vars(value, root_vars, seen): the resolved value and the names
\* seen after it (the set is shared by all the calls).
RECURSIVE resolve_vars(_, _, _)
resolve_vars(pieces, vars_map, names) ==
    IF pieces = <<>> THEN [out |-> <<>>, seen |-> names]
    ELSE LET piece == Head(pieces)
             first ==
                 IF piece.kind = "lit" THEN [out |-> <<piece>>, seen |-> names]
                 ELSE IF piece.name \in names
                 THEN [out |-> <<Unexpanded(piece.name)>>, seen |-> names]
                 ELSE IF get(vars_map, piece.name) /= <<>>
                 THEN resolve_vars(get(vars_map, piece.name)[1], vars_map,
                                   add(names, piece.name))
                 ELSE IF piece.fallback /= <<>>
                 THEN [out |-> <<Lit(strip(piece.fallback[1]))>>, seen |-> add(names, piece.name)]
                 ELSE [out |-> <<Unexpanded(piece.name)>>, seen |-> add(names, piece.name)]
             rest == resolve_vars(Tail(pieces), vars_map, first.seen)
         IN  [out |-> first.out \o rest.out, seen |-> rest.seen]

\* The text var(--c) is one element of a value of the model's sheets.
VarText == "var(--c)"

VarName == <<"-", "-", "c">>

RootSelector == <<":", "r", "o", "o", "t">>

\* The matches of the pattern var(--name) in a value, and the text between.
PiecesOf(value) ==
    [i \in DOMAIN value |->
        IF value[i] = VarText THEN VarRef(VarName, <<>>) ELSE Lit(<<value[i]>>)]

RECURSIVE TextOf(_)
TextOf(pieces) ==
    IF pieces = <<>> THEN <<>>
    ELSE (IF Head(pieces).kind = "lit" THEN Head(pieces).name ELSE <<VarText>>)
         \o TextOf(Tail(pieces))

\* self.resolve_vars(v[0], root_vars) if v[0] and 'var(' in v[0] else v[0]
ResolveValue(value, vars_map) ==
    IF \E i \in DOMAIN value : value[i] = VarText
    THEN TextOf(resolve_vars(PiecesOf(value), vars_map, {}).out)
    ELSE value

\* A rule table as compare_rule_dicts reads its values.
ResolveRules(rules, vars_map) ==
    [sel \in DOMAIN rules |->
        [prop \in DOMAIN rules[sel] |-> ResolveValue(rules[sel][prop], vars_map)]]

ResolveTables(tables, vars_map) ==
    [key \in DOMAIN tables |-> ResolveRules(tables[key], vars_map)]

\* root_vars of parse_css: the custom properties of the rules of selector
\* :root, those of @media and @supports blocks included, a later declaration
\* replacing an earlier one.
RootDecls(placed) ==
    LET rules == SelectSeq(placed, LAMBDA x : x.bucket[1] /= "keyframes")
    IN  AllDecls([i \in DOMAIN rules |-> rules[i].rule], RootSelector)

parsed_root_vars(css) ==
    LET decls == SelectSeq(RootDecls(PlaceRules(css, "", "")),
                           LAMBDA d : Len(d.prop) >= 2 /\ SubSeq(d.prop, 1, 2) = <<"-", "-">>)
    IN  [varname \in {decls[i].prop : i \in DOMAIN decls} |->
            <<PiecesOf(PropsOf(decls)[varname])>>]

\* compare_css: the report on the top-level rules.
CssResult(r) ==
    [css_similarity |-> Round2(r.final_score),
     matching_selectors |-> r.matching,
     different_selectors |-> r.different,
     missing_selectors |-> r.missing,
     extra_selectors |-> r.extra]

compare_css(css1, css2) ==
    CssResult(compare_rule_dicts(ResolveRules(top_rules(css1), parsed_root_vars(css1)),
                                 ResolveRules(top_rules(css2), parsed_root_vars(css2))))

\* compare_css with the media, keyframes and supports results, or the
\* exception compare_supports raises.
CssReport(css1, css2, supports_result) ==
    IF IsException(supports_result) THEN supports_result
    ELSE compare_css(css1, css2) @@
         [media_queries |->
              media_results(ResolveTables(media_rules(css1), parsed_root_vars(css1)),
                            ResolveTables(media_rules(css2), parsed_root_vars(css2))),
          keyframes |-> compare_keyframes(keyframes(css1), keyframes(css2)),
          supports |-> supports_result]

\* ------------------------------------------------------------------------
\* core/js_logic_analyzer.py: normalisation of a syntax tree
\* ------------------------------------------------------------------------

\* Syntax-tree nodes as tree-sitter hands them over: a type, the source text,
\* the children, and where the grammar has them the positions of the
\* children in the fields 'name', 'left' and 'property'.
Leaf(type, text) == [type |-> type, text |-> text, children |-> <<>>]

Inner(type, children) == [type |-> type, text |-> "", children |-> children]

Named(type, children, name) ==
    [type |-> type, text |-> "", children |-> children, name |-> name]

NoNode == [type |-> "", text |-> "", children |-> <<>>]

None == "None"

IdAlias(n) ==
    CASE n = 0 -> "id0" [] n = 1 -> "id1" [] n = 2 -> "id2" [] n = 3 -> "id3" [] OTHER -> "id4"

LitAlias(n) ==
    CASE n = 0 -> "lit0" [] n = 1 -> "lit1" [] n = 2 -> "lit2" [] OTHER -> "lit3"

AnonName(n) ==
    CASE n = 0 -> "anon_func_0" [] n = 1 -> "anon_func_1" [] OTHER -> "anon_func_2"

IndexOf(seq, x) == CHOOSE i \in DOMAIN seq : seq[i] = x

LiteralTypes == {"string", "string_literal", "number", "number_literal", "true", "false", "boolean"}

FunctionTypes == {"function_declaration", "function_expression", "arrow_function", "method_definition"}

child_by_field_name(node, field) ==
    IF Get(node, field, 0) = 0 THEN NoNode ELSE node.children[node[field]]

_get_node_name(node, parent) ==
    IF child_by_field_name(node, "name") /= NoNode
    THEN child_by_field_name(node, "name").text
    ELSE IF parent.type = "variable_declarator" /\ child_by_field_name(parent, "name") /= NoNode
    THEN child_by_field_name(parent, "name").text
    ELSE IF /\ parent.type = "assignment_expression"
            /\ child_by_field_name(parent, "left") /= NoNode
            /\ child_by_field_name(parent, "left").type = "identifier"
    THEN child_by_field_name(parent, "left").text
    ELSE None

\* id_map.get(text, text)
AliasOrText(id_map, text) ==
    IF text \in Range(id_map) THEN IdAlias(IndexOf(id_map, text) - 1) ELSE text

RECURSIVE _get_callee_name(_, _)
_get_callee_name(children, id_map) ==
    IF children = <<>> THEN None
    ELSE IF Head(children).type = "identifier" THEN AliasOrText(id_map, Head(children).text)
    ELSE IF /\ Head(children).type = "member_expression"
            /\ child_by_field_name(Head(children), "property") /= NoNode
    THEN AliasOrText(id_map, child_by_field_name(Head(children), "property").text)
    ELSE _get_callee_name(Tail(children), id_map)

\* The maps, counters and stack threaded through the normalisation.
\* by_parent: whether an unnamed function takes its name from the enclosing
\* declarator or assignment (_get_node_name) or stays anonymous
\* (get_function_name of the JSX parser).
NormStart ==
    [id_map |-> <<>>, lit_map |-> <<>>, call_graph |-> <<>>, function_stack |-> <<>>,
     anon_func_counter |-> 0, by_parent |-> TRUE]

setdefault(call_graph, name) ==
    [k \in DOMAIN call_graph \cup {name} |->
        IF k \in DOMAIN call_graph THEN call_graph[k] ELSE {}]

AddEdge(call_graph, caller, callee) ==
    [k \in DOMAIN call_graph |->
        IF k = caller THEN call_graph[k] \cup {callee} ELSE call_graph[k]]

RECURSIVE _normalize_ast_with_call_graph(_, _, _)
RECURSIVE NormalizeChildren(_, _, _)

\* The loop over node.children: the normalised children and the state after.
NormalizeChildren(children, parent, st) ==
    IF children = <<>> THEN [children |-> <<>>, st |-> st]
    ELSE LET first == _normalize_ast_with_call_graph(Head(children), parent, st)
             rest == NormalizeChildren(Tail(children), parent, first.st)
         IN [children |-> <<first.node>> \o rest.children, st |-> rest.st]

_normalize_ast_with_call_graph(node, parent, st) ==
    IF node.type = "identifier" THEN
        LET id_map == IF node.text \in Range(st.id_map) THEN st.id_map
                      ELSE Append(st.id_map, node.text)
        IN [node |-> [type |-> "identifier", name |-> IdAlias(IndexOf(id_map, node.text) - 1)],
            st |-> [st EXCEPT !.id_map = id_map]]
    ELSE IF node.type \in LiteralTypes THEN
        LET lit_map == IF node.text \in Range(st.lit_map) THEN st.lit_map
                       ELSE Append(st.lit_map, node.text)
        IN [node |-> [type |-> node.type, value |-> LitAlias(IndexOf(lit_map, node.text) - 1)],
            st |-> [st EXCEPT !.lit_map = lit_map]]
    ELSE IF node.type \in FunctionTypes THEN
        LET looked == IF st.by_parent THEN parent ELSE NoNode
            named == _get_node_name(node, looked) /= None
            func_name == IF named THEN _get_node_name(node, looked)
                         ELSE AnonName(st.anon_func_counter)
            entered == [st EXCEPT
                          !.anon_func_counter = IF named THEN @ ELSE @ + 1,
                          !.function_stack = Append(@, func_name),
                          !.call_graph = setdefault(@, func_name)]
            kids == NormalizeChildren(node.children, node, entered)
        IN [node |-> [type |-> node.type, name |-> func_name, children |-> kids.children],
            st |-> [kids.st EXCEPT
                      !.function_stack = SubSeq(@, 1, Len(@) - 1)]]
    ELSE IF node.type = "call_expression" THEN
        LET callee == _get_callee_name(node.children, st.id_map)
            called == IF st.function_stack /= <<>> /\ callee /= None
                      THEN [st EXCEPT !.call_graph =
                               AddEdge(@, st.function_stack[Len(st.function_stack)], callee)]
                      ELSE st
            kids == NormalizeChildren(node.children, node, called)
        IN [node |-> [type |-> node.type, callee |-> callee, children |-> kids.children],
            st |-> kids.st]
    ELSE
        LET kids == NormalizeChildren(node.children, node, st)
        IN [node |-> [type |-> node.type, children |-> kids.children,
                      text |-> IF node.children = <<>> THEN node.text ELSE None],
            st |-> kids.st]

EmptyDict == <<>>

\* The syntax trees of the script sources of the model.
Kw(word) == Leaf(word, word)

Ident(name) == Leaf("identifier", name)

Block(statements) == Inner("statement_block", <<Kw("{")>> \o statements \o <<Kw("}")>>)

CallStmt(callee) ==
    Inner("expression_statement",
          <<Inner("call_expression", <<Ident(callee), Inner("arguments", <<Kw("("), Kw(")")>>)>>)>>)

FunctionDecl(name, statements) ==
    Named("function_declaration",
          <<Kw("function"), Ident(name), Inner("formal_parameters", <<Kw("("), Kw(")")>>),
            Block(statements)>>, 2)

\* function name(parameter) { }
FunctionOf(name, parameter) ==
    Named("function_declaration",
          <<Kw("function"), Ident(name),
            Inner("formal_parameters", <<Kw("("), Ident(parameter), Kw(")")>>),
            Block(<<>>)>>, 2)

\* var name;
VarStmt(name) ==
    Inner("variable_declaration",
          <<Kw("var"), Named("variable_declarator", <<Ident(name)>>, 1), Kw(";")>>)

IfStmt(cond, statements) ==
    Inner("if_statement",
          <<Kw("if"), Inner("parenthesized_expression", <<Kw("("), Ident(cond), Kw(")")>>),
            Block(statements)>>)

ClassDecl(name) ==
    Named("class_declaration",
          <<Kw("class"), Ident(name), Inner("class_body", <<Kw("{"), Kw("}")>>)>>, 2)

ImportStmt(source) ==
    Inner("import_statement", <<Kw("import"), Leaf("string", source)>>)

Program(statements) == Inner("program", statements)

JsSource(body) ==
    CASE body = 1 -> Program(<<FunctionDecl("f", <<>>), FunctionDecl("g", <<CallStmt("f")>>)>>)
      [] body = 2 -> Program(<<FunctionDecl("f", <<>>)>>)
      [] body = 3 -> Program(<<>>)
      [] body = 4 -> Program(<<CallStmt("f")>>)
      [] body = 5 -> Program(<<IfStmt("x", <<>>), ClassDecl("C")>>)
      [] body = 6 -> Program(<<ImportStmt("m"), FunctionDecl("h", <<CallStmt("h")>>)>>)
      [] body = 8 -> Program(<<FunctionOf("f", "a")>>)
      [] body = 9 -> Program(<<FunctionDecl("f", <<CallStmt("g")>>)>>)
      [] body = 10 -> Program(<<FunctionDecl("f", <<>>), FunctionDecl("f", <<>>)>>)
      [] body = 11 -> Program(<<FunctionDecl("f", <<VarStmt("x"), CallStmt("x")>>)>>)
      [] body = 12 -> Program(<<FunctionDecl("f", <<VarStmt("y"), CallStmt("y")>>)>>)
      [] body = 13 -> Program(<<FunctionDecl("f", <<CallStmt("x"), VarStmt("x")>>)>>)
      [] body = 14 -> Program(<<FunctionDecl("f", <<CallStmt("y"), VarStmt("y")>>)>>)
      [] OTHER -> Program(<<FunctionDecl("g", <<CallStmt("g")>>)>>)

\* parse_file: the normalised tree and call graph of a file's source, {}
\* when the file cannot be read (body 0).
parse_file(body) ==
    IF ~Readable(body) THEN EmptyDict
    ELSE LET r == _normalize_ast_with_call_graph(JsSource(body), NoNode, NormStart)
         IN [ast |-> r.node, call_graph |-> r.st.call_graph]

\* ------------------------------------------------------------------------
\* core/js_logic_analyzer.py: comparison
\* ------------------------------------------------------------------------

\* The set of (caller, callee) edges of a call graph.
Edges(cg) ==
    {e \in (DOMAIN cg) \X (UNION {cg[k] : k \in DOMAIN cg}) : e[2] \in cg[e[1]]}

\* A variant of compare_call_graphs without the case of two empty edge sets.
CallGraphsWithoutEmptyCase(cg1, cg2) ==
    IF Edges(cg1) = {} \/ Edges(cg2) = {} THEN Zero
    ELSE Q(Cardinality(Edges(cg1) \cap Edges(cg2)), Cardinality(Edges(cg1) \cup Edges(cg2)))

compare_call_graphs(cg1, cg2) ==
    LET edges1 == Edges(cg1)
        edges2 == Edges(cg2)
    IN IF edges1 = {} /\ edges2 = {} THEN One
       ELSE IF edges1 = {} \/ edges2 = {} THEN Zero
       ELSE Q(Cardinality(edges1 \cap edges2), Cardinality(edges1 \cup edges2))

RECURSIVE Extract(_, _)
RECURSIVE ExtractAll(_, _)

\* The traversal shared by the _extract_* methods: the nodes of the given
\* types, in pre-order.
ExtractAll(nodes, types) ==
    IF nodes = <<>> THEN <<>> ELSE Extract(Head(nodes), types) \o ExtractAll(Tail(nodes), types)

Extract(node, types) ==
    (IF Get(node, "type", None) \in types THEN <<node>> ELSE <<>>)
    \o ExtractAll(Get(node, "children", <<>>), types)

_extract_functions(tree) == Extract(tree, {"function_declaration", "method_definition"})

_extract_imports(tree) == Extract(tree, {"import_declaration", "export_declaration"})

_extract_classes(tree) == Extract(tree, {"class_declaration", "class_expression"})

_extract_control_flow(tree) == Extract(tree, {"for_statement", "while_statement", "if_statement"})

QMax(a, b) == IF QLt(a, b) THEN b ELSE a

RECURSIVE QMaxOf(_)
QMaxOf(s) == IF s = <<>> THEN Zero ELSE QMax(Head(s), QMaxOf(Tail(s)))

Max(a, b) == IF a < b THEN b ELSE a

_compare_function_signatures(func1, func2) ==
    IF Get(func1, "name", None) /= Get(func2, "name", None) THEN Zero
    ELSE IF Len(Get(func1, "parameters", <<>>)) /= Len(Get(func2, "parameters", <<>>))
    THEN <<1, 2>>
    ELSE One

\* name or value or text
LeafValue(node) ==
    IF Get(node, "name", None) \notin {None, ""} THEN node.name
    ELSE IF Get(node, "value", None) \notin {None, ""} THEN node.value
    ELSE Get(node, "text", None)

RECURSIVE _tree_similarity(_, _)
RECURSIVE TreeGreedy(_, _, _)

\* The greedy pairing of children: the sum of the best similarities.
TreeGreedy(children1, children2, used2) ==
    IF children1 = <<>> THEN Zero
    ELSE LET free == {j \in DOMAIN children2 : j \notin used2}
             sims == [j \in DOMAIN children2 |->
                         IF j \in free THEN _tree_similarity(Head(children1), children2[j])
                         ELSE Zero]
             best_j == BestIndex(sims)
         IN IF best_j = 0 THEN TreeGreedy(Tail(children1), children2, used2)
            ELSE QAdd(sims[best_j], TreeGreedy(Tail(children1), children2, used2 \cup {best_j}))

_tree_similarity(node1, node2) ==
    IF ~Truthy(node1) /\ ~Truthy(node2) THEN One
    ELSE IF ~Truthy(node1) \/ ~Truthy(node2) THEN Zero
    ELSE IF Get(node1, "type", None) /= Get(node2, "type", None) THEN Zero
    ELSE LET children1 == Get(node1, "children", <<>>)
             children2 == Get(node2, "children", <<>>)
         IN IF children1 = <<>> /\ children2 = <<>>
            THEN (IF LeafValue(node1) = LeafValue(node2) THEN One
                  ELSE IF LeafValue(node1) = None \/ LeafValue(node2) = None THEN <<4, 5>>
                  ELSE Zero)
            ELSE QDivInt(TreeGreedy(children1, children2, {}),
                         Max(Len(children1), Len(children2)))

_compare_function_bodies(func1, func2) ==
    _tree_similarity(Get(func1, "body", EmptyDict), Get(func2, "body", EmptyDict))

\* 0.3 * signature + 0.7 * body
FunctionPairSimilarity(func1, func2) ==
    QAdd(QMul(_compare_function_signatures(func1, func2), <<3, 10>>),
         QMul(_compare_function_bodies(func1, func2), <<7, 10>>))

\* The shape shared by the _compare_* methods: 1.0 when both lists are empty,
\* 0.0 when one is, else the mean of each first-list item's best pair score.
BestMatchMean(scores, len1, len2) ==
    IF len1 = 0 /\ len2 = 0 THEN One
    ELSE IF len1 = 0 \/ len2 = 0 THEN Zero
    ELSE QDivInt(QSum([i \in 1..len1 |-> QMaxOf(scores[i])]), Max(len1, len2))

_compare_functions(tree1, tree2) ==
    LET functions1 == _extract_functions(tree1)
        functions2 == _extract_functions(tree2)
    IN BestMatchMean([i \in DOMAIN functions1 |-> [j \in DOMAIN functions2 |->
                          FunctionPairSimilarity(functions1[i], functions2[j])]],
                     Len(functions1), Len(functions2))

SpecifierNames(spec) == {Get(spec[i], "name", None) : i \in DOMAIN spec}

_compare_import_specifiers(spec1, spec2) ==
    IF spec1 = <<>> /\ spec2 = <<>> THEN One
    ELSE IF spec1 = <<>> \/ spec2 = <<>> THEN Zero
    ELSE Q(Cardinality(SpecifierNames(spec1) \cap SpecifierNames(spec2)),
           Cardinality(SpecifierNames(spec1) \cup SpecifierNames(spec2)))

ImportPairSimilarity(imp1, imp2) ==
    IF Get(imp1, "source", None) = Get(imp2, "source", None)
    THEN _compare_import_specifiers(Get(imp1, "specifiers", <<>>), Get(imp2, "specifiers", <<>>))
    ELSE Zero

_compare_imports(tree1, tree2) ==
    LET imports1 == _extract_imports(tree1)
        imports2 == _extract_imports(tree2)
    IN BestMatchMean([i \in DOMAIN imports1 |-> [j \in DOMAIN imports2 |->
                          ImportPairSimilarity(imports1[i], imports2[j])]],
                     Len(imports1), Len(imports2))

MethodPairSimilarity(method1, method2) ==
    IF Get(method1, "name", None) = Get(method2, "name", None)
    THEN _compare_function_bodies(method1, method2)
    ELSE Zero

_compare_class_methods(methods1, methods2) ==
    BestMatchMean([i \in DOMAIN methods1 |-> [j \in DOMAIN methods2 |->
                       MethodPairSimilarity(methods1[i], methods2[j])]],
                  Len(methods1), Len(methods2))

ClassPairSimilarity(class1, class2) ==
    IF Get(class1, "name", None) = Get(class2, "name", None)
    THEN _compare_class_methods(Get(class1, "methods", <<>>), Get(class2, "methods", <<>>))
    ELSE Zero

_compare_classes(tree1, tree2) ==
    LET classes1 == _extract_classes(tree1)
        classes2 == _extract_classes(tree2)
    IN BestMatchMean([i \in DOMAIN classes1 |-> [j \in DOMAIN classes2 |->
                          ClassPairSimilarity(classes1[i], classes2[j])]],
                     Len(classes1), Len(classes2))

\* str() of a condition: no normalised node has the key 'condition', so the
\* text compared is that of the default, "{}".
StrOfDict(cond) == IF ~Truthy(cond) THEN <<"{", "}">> ELSE <<"{", ".", "}">>

_compare_conditions(cond1, cond2) == ratio(StrOfDict(cond1), StrOfDict(cond2))

ControlFlowPairSimilarity(node1, node2) ==
    IF Get(node1, "type", None) = Get(node2, "type", None)
    THEN QAdd(QMul(_compare_conditions(Get(node1, "condition", EmptyDict),
                                       Get(node2, "condition", EmptyDict)), <<3, 10>>),
              QMul(_compare_function_bodies(Get(node1, "body", EmptyDict),
                                            Get(node2, "body", EmptyDict)), <<7, 10>>))
    ELSE Zero

_compare_control_flow(tree1, tree2) ==
    LET flow1 == _extract_control_flow(tree1)
        flow2 == _extract_control_flow(tree2)
    IN BestMatchMean([i \in DOMAIN flow1 |-> [j \in DOMAIN flow2 |->
                          ControlFlowPairSimilarity(flow1[i], flow2[j])]],
                     Len(flow1), Len(flow2))

\* sig_similarity, body_similarity and similarity of every pair the loops of
\* compare_files score.
PairScores(functions1, functions2) ==
    [i \in DOMAIN functions1 |-> [j \in DOMAIN functions2 |->
        [sig_similarity |-> _compare_function_signatures(functions1[i], functions2[j]),
         body_similarity |-> _compare_function_bodies(functions1[i], functions2[j]),
         similarity |-> FunctionPairSimilarity(functions1[i], functions2[j])]]]

NoCounts ==
    [matching_functions |-> 0, different_functions |-> 0, missing_functions |-> 0,
     matched2 |-> {}, added |-> <<>>]

\* The function-level counts of compare_files: each function of the first
\* file takes the first best-scoring function of the second. added lists,
\* per function of the first file, the index it adds to matched2 (0: none).
RECURSIVE FunctionCounts(_, _, _)
FunctionCounts(functions1, functions2, acc) ==
    IF functions1 = <<>> THEN acc
    ELSE LET sims == [j \in DOMAIN functions2 |->
                         FunctionPairSimilarity(Head(functions1), functions2[j])]
             best_idx == BestIndex(sims)
             best_score == IF best_idx = 0 THEN Zero ELSE sims[best_idx]
             claimed == IF best_idx = 0 THEN acc.matched2 ELSE acc.matched2 \cup {best_idx}
         IN FunctionCounts(Tail(functions1), functions2,
                IF QLt(<<4, 5>>, best_score)
                THEN [acc EXCEPT !.matching_functions = @ + 1, !.matched2 = claimed,
                                 !.added = Append(@, best_idx)]
                ELSE IF QLt(<<1, 2>>, best_score)
                THEN [acc EXCEPT !.different_functions = @ + 1, !.matched2 = claimed,
                                 !.added = Append(@, best_idx)]
                ELSE [acc EXCEPT !.missing_functions = @ + 1, !.added = Append(@, 0)])

\* compare_files on the two parse results; err is the side the floating-point
\* error of the weighted sums falls on.
compare_files(parsed1, parsed2, err) ==
    LET tree1 == Get(parsed1, "ast", EmptyDict)
        tree2 == Get(parsed2, "ast", EmptyDict)
        call_graph1 == Get(parsed1, "call_graph", EmptyDict)
        call_graph2 == Get(parsed2, "call_graph", EmptyDict)
        function_similarity == _compare_functions(tree1, tree2)
        import_similarity == _compare_imports(tree1, tree2)
        class_similarity == _compare_classes(tree1, tree2)
        control_flow_similarity == _compare_control_flow(tree1, tree2)
        call_graph_similarity == compare_call_graphs(call_graph1, call_graph2)
        functions1 == _extract_functions(tree1)
        functions2 == _extract_functions(tree2)
        counts == FunctionCounts(functions1, functions2, NoCounts)
        overall_similarity ==
            QAdd(QMul(function_similarity, <<35, 100>>),
            QAdd(QMul(import_similarity, <<15, 100>>),
            QAdd(QMul(class_similarity, <<15, 100>>),
            QAdd(QMul(control_flow_similarity, <<15, 100>>),
                 QMul(call_graph_similarity, <<20, 100>>)))))
    IN [similarity |-> RoundFloat2(overall_similarity, err),
        function_similarity |-> RoundFloat2(function_similarity, err),
        import_similarity |-> RoundFloat2(import_similarity, err),
        class_similarity |-> RoundFloat2(class_similarity, err),
        control_flow_similarity |-> RoundFloat2(control_flow_similarity, err),
        call_graph_similarity |-> RoundFloat2(call_graph_similarity, err),
        total_functions |-> Max(Len(functions1), Len(functions2)),
        matching_functions |-> counts.matching_functions,
        different_functions |-> counts.different_functions,
        missing_functions |-> counts.missing_functions,
        extra_functions |-> Len(functions2) - Cardinality(counts.matched2)]

\* ------------------------------------------------------------------------
\* Contents of the files of each type
\* ------------------------------------------------------------------------

\* A class attribute with the given tokens.
SoupClass(tokens) == << <<"class", [kind |-> "list", v |-> tokens]>> >>

HtmlSoup(body) ==
    CASE body = 1 ->
            SoupTag("[document]", <<>>, <<SoupTag("div", <<>>, <<SoupText(<<"H", "i">>)>>)>>)
      [] body = 3 ->
            SoupTag("[document]", <<>>,
                    <<SoupTag("div", SoupClass(<<"a", "b">>), <<SoupText(<<"H", "i">>)>>)>>)
      [] body = 4 ->
            SoupTag("[document]", <<>>,
                    <<SoupTag("div", SoupClass(<<"a">>), <<SoupText(<<"H", "i">>)>>)>>)
      [] OTHER ->
            SoupTag("[document]", <<>>, <<SoupTag("div", <<>>, <<SoupText(<<"H", "o">>)>>)>>)

CssSheet(body) ==
    IF body = 1
    THEN <<Rule(<<"a">>, <<Decl(<<"t", "o", "p">>, <<"0">>)>>)>>
    ELSE <<Rule(<<"a">>, <<Decl(<<"t", "o", "p">>, <<"0">>)>>),
           Rule(<<"p">>, <<Decl(<<"t", "o", "p">>, <<"0">>)>>)>>

ReturnJsx(tag, text) ==
    Inner("return_statement",
          <<Kw("return"),
            Inner("jsx_element",
                  <<Inner("jsx_opening_element", <<Kw("<"), Ident(tag), Kw(">")>>),
                    Leaf("jsx_text", text),
                    Inner("jsx_closing_element", <<Kw("</"), Ident(tag), Kw(">")>>)>>)>>)

\* The source text of an attribute value holding the given class tokens.
QuotedText(tokens) == IF tokens = <<"a", "b">> THEN "\"a b\"" ELSE "\"a\""

\* return <tag className="..."> text </tag>; the attribute value is given
\* by its class tokens.
ReturnJsxClass(tag, tokens, text) ==
    Inner("return_statement",
          <<Kw("return"),
            Inner("jsx_element",
                  <<Inner("jsx_opening_element",
                          <<Kw("<"), Ident(tag),
                            Inner("jsx_attribute",
                                  <<Leaf("property_identifier", "className"), Kw("="),
                                    [type |-> "string", text |-> QuotedText(tokens),
                                     children |-> <<>>, tokens |-> tokens]>>),
                            Kw(">")>>),
                    Leaf("jsx_text", text),
                    Inner("jsx_closing_element", <<Kw("</"), Ident(tag), Kw(">")>>)>>)>>)

JsxSource(body) ==
    CASE body = 1 ->
            Program(<<FunctionDecl("A", <<ReturnJsx("div", "Hi")>>),
                      FunctionDecl("B", <<ReturnJsx("div", "Ho")>>)>>)
      [] body = 3 ->
            Program(<<FunctionDecl("A", <<ReturnJsxClass("div", <<"a", "b">>, "Hi")>>)>>)
      [] body = 4 ->
            Program(<<FunctionDecl("A", <<ReturnJsxClass("div", <<"a">>, "Hi")>>)>>)
      [] OTHER -> Program(<<FunctionDecl("A", <<CallStmt("B")>>)>>)

\* parse_jsx_with_treesitter of a readable file: the normalised tree and the
\* call graph under the keys 'ast' and 'call_graph'.
parse_jsx_with_treesitter(body) ==
    LET r == _normalize_ast_with_call_graph(JsxSource(body), NoNode,
                                            [NormStart EXCEPT !.by_parent = FALSE])
    IN [ast |-> r.node, call_graph |-> r.st.call_graph]

\* HTMLParser.parse_file of a readable file.
HTMLParser_parse_file(body) == parse(HtmlSoup(body))

\* ------------------------------------------------------------------------
\* core/tailwind_analyzer.py
\* ------------------------------------------------------------------------

\* The class tokens of every tag of a soup, in document order.
RECURSIVE SoupClasses(_)
RECURSIVE SoupClassesOf(_)
SoupClassesOf(nodes) ==
    IF nodes = <<>> THEN <<>> ELSE SoupClasses(Head(nodes)) \o SoupClassesOf(Tail(nodes))

SoupClasses(node) ==
    IF node.name = "None" THEN <<>>
    ELSE (IF \E i \in DOMAIN node.attrs : node.attrs[i][1] = "class"
          THEN node.attrs[CHOOSE i \in DOMAIN node.attrs : node.attrs[i][1] = "class"][2].v
          ELSE <<>>)
         \o SoupClassesOf(node.children)

\* The tokens of every class="..." or className="..." of a source text, in
\* source order.
RECURSIVE SourceClasses(_)
RECURSIVE SourceClassesOf(_)
SourceClassesOf(nodes) ==
    IF nodes = <<>> THEN <<>> ELSE SourceClasses(Head(nodes)) \o SourceClassesOf(Tail(nodes))

SourceClasses(node) ==
    IF /\ node.type = "jsx_attribute"
       /\ node.children[1].text \in {"class", "className"}
       /\ node.children[3].type = "string"
    THEN node.children[3].tokens
    ELSE SourceClassesOf(node.children)

\* Counter of a token list.
Counter(tokens) ==
    [c \in Range(tokens) |-> Cardinality({i \in DOMAIN tokens : tokens[i] = c})]

\* extract_classes: the class counter of a file's content.
extract_classes(body, filetype) ==
    IF filetype = "html" THEN Counter(SoupClasses(HtmlSoup(body)))
    ELSE IF filetype = "jsx" THEN Counter(SourceClasses(JsxSource(body)))
    ELSE Counter(<<>>)

CountOf(counter, c) == IF c \in DOMAIN counter THEN counter[c] ELSE 0

RECURSIVE SumOver(_, _, _, _)
\* The sum over the classes of the smaller (least) or larger count of two counters.
SumOver(classes, c1, c2, least) ==
    IF classes = {} THEN 0
    ELSE LET c == CHOOSE x \in classes : TRUE
         IN (IF (CountOf(c1, c) < CountOf(c2, c)) = least THEN CountOf(c1, c) ELSE CountOf(c2, c))
            + SumOver(classes \ {c}, c1, c2, least)

frequency_weighted_jaccard(c1, c2) ==
    IF SumOver(DOMAIN c1 \cup DOMAIN c2, c1, c2, FALSE) = 0 THEN One
    ELSE Q(SumOver(DOMAIN c1 \cup DOMAIN c2, c1, c2, TRUE),
           SumOver(DOMAIN c1 \cup DOMAIN c2, c1, c2, FALSE))

set_jaccard_similarity(set1, set2) ==
    IF set1 = {} /\ set2 = {} THEN One
    ELSE Q(Cardinality(set1 \cap set2), Cardinality(set1 \cup set2))

\* compare_classes: the counters and the hybrid similarity.
compare_classes(body1, body2, filetype) ==
    [original_classes |-> extract_classes(body1, filetype),
     user_classes |-> extract_classes(body2, filetype),
     hybrid_similarity |->
        QAdd(QMul(<<1, 2>>, frequency_weighted_jaccard(extract_classes(body1, filetype),
                                                      extract_classes(body2, filetype))),
             QMul(<<1, 2>>, set_jaccard_similarity(DOMAIN extract_classes(body1, filetype),
                                                  DOMAIN extract_classes(body2, filetype))))]

\* The hybrid similarities appended to tailwind_results for the matched
\* pairs of a markup type: one per pair with a class on either side.
RECURSIVE TailwindResults(_, _, _, _)
TailwindResults(pairs, dir1, dir2, filetype) ==
    IF pairs = <<>> \/ filetype \notin {"html", "jsx"} THEN <<>>
    ELSE LET tw_result == compare_classes(BodyAt(dir1, Head(pairs).original),
                                          BodyAt(dir2, Head(pairs).modified), filetype)
         IN (IF DOMAIN tw_result.original_classes /= {} \/ DOMAIN tw_result.user_classes /= {}
             THEN <<tw_result.hybrid_similarity>> ELSE <<>>)
            \o TailwindResults(Tail(pairs), dir1, dir2, filetype)

\* ------------------------------------------------------------------------
\* Structural stage
\* ------------------------------------------------------------------------

JsxMeaningful ==
    {"function_declaration", "function_expression", "arrow_function", "class_declaration",
     "variable_declaration", "export_statement", "export_default_declaration",
     "jsx_element", "jsx_fragment"}

JsMeaningful ==
    {"function_declaration", "function_expression", "arrow_function", "class_declaration",
     "variable_declaration", "export_statement", "export_default_declaration",
     "import_declaration"}

CountTypes(tree, types) ==
    LET root == Get(tree, "root", tree)
        children == Get(root, "children", <<>>)
    IN Cardinality({i \in DOMAIN children : Get(children[i], "type", None) \in types})

count_meaningful_nodes(tree, filetype) ==
    IF ~Truthy(tree) THEN 0
    ELSE IF filetype = "html" THEN (IF Get(tree, "type", None) = "tag" THEN 1 ELSE 0)
    ELSE IF filetype = "jsx" THEN CountTypes(tree, JsxMeaningful)
    ELSE IF filetype = "js" THEN CountTypes(tree, JsMeaningful)
    ELSE 0

strict_single_node_similarity(tree1, tree2, filetype) ==
    IF filetype \in {"html", "jsx"} THEN compare_structures(tree1, tree2).similarity_score
    ELSE IF filetype = "js" THEN _tree_similarity(tree1, tree2)
    ELSE Zero

\* What the structural stage loads of a file: the parsed tree for markup, the
\* text for a stylesheet.  JSLogicAnalyzer has no _parse_file, so the script
\* matcher holds None for every file.
StructureTree(filetype, body) ==
    CASE filetype = "html" -> HTMLParser_parse_file(body)
      [] filetype = "jsx" -> parse_jsx_with_treesitter(body)
      [] filetype = "css" -> CssSheet(body)
      [] OTHER -> EmptyDict

StructureCount(filetype, body) ==
    IF filetype = "css" THEN count(CssText(CssSheet(body)), "{")
    ELSE count_meaningful_nodes(StructureTree(filetype, body), filetype)

\* The similarity of two files with at least two nodes each (for scripts the
\* counts are always 0 and this branch is never taken).
FullSimilarity(filetype, body1, body2) ==
    CASE filetype = "css" -> compare_css(CssSheet(body1), CssSheet(body2)).css_similarity
      [] filetype = "js" -> compare_files(parse_file(body1), parse_file(body2), "below").similarity
      [] OTHER -> compare_structures(StructureTree(filetype, body1),
                                     StructureTree(filetype, body2)).similarity_score

\* The score of one pair in the structural stage.
ScoreByCounts(filetype, body1, body2, n1, n2) ==
    IF n1 < 2 \/ n2 < 2
    THEN (IF n1 = 1 /\ n2 = 1
          THEN (IF filetype = "css"
                THEN compare_css(CssSheet(body1), CssSheet(body2)).css_similarity
                ELSE strict_single_node_similarity(StructureTree(filetype, body1),
                                                   StructureTree(filetype, body2), filetype))
          ELSE Zero)
    ELSE FullSimilarity(filetype, body1, body2)

StructureScore(filetype, body1, body2) ==
    ScoreByCounts(filetype, body1, body2,
                  StructureCount(filetype, body1), StructureCount(filetype, body2))

\* Whether loading a file in the structural stage raises: open() and
\* parse_file are not guarded for html, css and jsx.
LoadRaises(filetype, body) == filetype /= "js" /\ ~Readable(body)

\* The loop shared by structure_match_html, _css, _jsx and _js: the matches,
\* or raised when a load fails.

RECURSIVE structure_loop(_, _, _, _, _, _)
RECURSIVE StructureStep(_, _, _, _, _, _, _)
structure_loop(rest1, files2, dir1, dir2, filetype, matches) ==
    IF rest1 = <<>> THEN [raised |-> FALSE, matches |-> matches]
    ELSE StructureStep(rest1, files2, dir1, dir2, filetype, matches,
                       NotUsed(files2, Used(matches)))

\* One original against the candidates not yet used.
StructureStep(rest1, files2, dir1, dir2, filetype, matches, cands) ==
    IF \/ LoadRaises(filetype, BodyAt(dir1, Head(rest1)))
       \/ \E j \in DOMAIN cands : LoadRaises(filetype, BodyAt(dir2, cands[j]))
    THEN [raised |-> TRUE, matches |-> matches]
    ELSE structure_loop(Tail(rest1), files2, dir1, dir2, filetype,
                        Claimed(matches, Head(rest1), cands,
                                [j \in DOMAIN cands |->
                                    StructureScore(filetype, BodyAt(dir1, Head(rest1)),
                                                   BodyAt(dir2, cands[j]))],
                                <<1, 2>>))

structure_match(files1, files2, dir1, dir2, filetype) ==
    structure_loop(files1, files2, dir1, dir2, filetype, <<>>)

\* ------------------------------------------------------------------------
\* Contextual and content stages
\* ------------------------------------------------------------------------

\* The number of equal leading folders of two paths.
RECURSIVE CommonFolders(_, _)
CommonFolders(parts1, parts2) ==
    IF parts1 = <<>> \/ parts2 = <<>> \/ Head(parts1) /= Head(parts2) THEN 0
    ELSE 1 + CommonFolders(Tail(parts1), Tail(parts2))

\* os.sep.join(parts[:-1])
Parent(path, filetype) ==
    LET parts == split(path, filetype) IN join(SubSeq(parts, 1, Len(parts) - 1))

\* 0.7 * folder_score + 0.3 * neighbor_score of one pair.
FolderScore(f1_parts, f2_parts) ==
    Q(CommonFolders(SubSeq(f1_parts, 1, Len(f1_parts) - 1),
                    SubSeq(f2_parts, 1, Len(f2_parts) - 1)),
      Max(Len(f1_parts), Len(f2_parts)))

NeighborScore(f1, f2, matched_pairs, filetype) ==
    Q(Cardinality({i \in DOMAIN matched_pairs :
                      /\ startswith(PathStr(matched_pairs[i][1], filetype), Parent(f1, filetype))
                      /\ startswith(PathStr(matched_pairs[i][2], filetype), Parent(f2, filetype))}),
      Len(matched_pairs) + 1)

ContextualScore(f1, f2, matched_pairs, filetype) ==
    QAdd(QMul(<<7, 10>>, FolderScore(split(f1, filetype), split(f2, filetype))),
         QMul(<<3, 10>>, NeighborScore(f1, f2, matched_pairs, filetype)))

\* A variant of contextual_match that starts with no candidate used.
NoneUsed(matched_pairs) == {}

\* The candidates contextual_match starts out with as used: those of the
\* pairs matched so far.
ContextualUsed(matched_pairs) == Used(matched_pairs)

ContextualStep(matches, f1, cands, matched_pairs, filetype) ==
    Claimed(matches, f1, cands,
            [j \in DOMAIN cands |-> ContextualScore(f1, cands[j], matched_pairs, filetype)],
            <<1, 2>>)

\* used2 is the set contextual_match starts with; the candidates it adds are
\* those of its own matches.
RECURSIVE contextual_loop(_, _, _, _, _, _)
contextual_loop(rest1, files2, matched_pairs, filetype, used2, matches) ==
    IF rest1 = <<>> THEN matches
    ELSE contextual_loop(Tail(rest1), files2, matched_pairs, filetype, used2,
                         ContextualStep(matches, Head(rest1),
                                        NotUsed(files2, used2 \cup Used(matches)),
                                        matched_pairs, filetype))

contextual_match(files1, files2, matched_pairs, filetype) ==
    contextual_loop(files1, files2, matched_pairs, filetype,
                    ContextualUsed(matched_pairs), <<>>)

content_similarity(a, b) == ratio(a, b)

RECURSIVE content_loop(_, _, _, _, _)
RECURSIVE ContentStep(_, _, _, _, _, _)
content_loop(rest1, files2, dir1, dir2, matches) ==
    IF rest1 = <<>> THEN [raised |-> FALSE, matches |-> matches]
    ELSE ContentStep(rest1, files2, dir1, dir2, matches, NotUsed(files2, Used(matches)))

ContentStep(rest1, files2, dir1, dir2, matches, cands) ==
    IF \/ ~Readable(BodyAt(dir1, Head(rest1)))
       \/ \E j \in DOMAIN cands : ~Readable(BodyAt(dir2, cands[j]))
    THEN [raised |-> TRUE, matches |-> matches]
    ELSE content_loop(Tail(rest1), files2, dir1, dir2,
                      Claimed(matches, Head(rest1), cands,
                              [j \in DOMAIN cands |->
                                  content_similarity(
                                      CssText(CssSheet(BodyAt(dir1, Head(rest1)))),
                                      CssText(CssSheet(BodyAt(dir2, cands[j]))))],
                              <<3, 5>>))

content_match_css(unmatched1, unmatched2, dir1, dir2) ==
    content_loop(unmatched1, unmatched2, dir1, dir2, <<>>)

\* ------------------------------------------------------------------------
\* Match records, per-pair comparison and aggregate
\* ------------------------------------------------------------------------

Record(m, score, match_type) ==
    [original |-> m[1], modified |-> m[2], score |-> score, match_type |-> match_type]

Scored(matches, match_type) ==
    [i \in DOMAIN matches |-> Record(matches[i], Round2(matches[i][3]), match_type)]

\* output_matched_pairs_json, then the content matches appended for css.
output_matched_pairs_json(exact_m, fuzzy_m, structure_m, contextual_m, content_m) ==
    [i \in DOMAIN exact_m |-> Record(exact_m[i], One, "exact")]
    \o Scored(fuzzy_m, "fuzzy")
    \o Scored(structure_m, "fuzzy+structure")
    \o Scored(contextual_m, "contextual")
    \o Scored(content_m, "content")

\* Whether comparing one matched pair raises: only the script comparison is
\* inside try/except, and compare_files itself swallows a failed read.
CompareRaises(filetype, body1, body2) ==
    filetype /= "js" /\ (~Readable(body1) \/ ~Readable(body2))

\* The similarity recorded for one matched pair.
PairSimilarity(filetype, body1, body2, err) ==
    CASE filetype = "html" ->
            Round2(compare_structures(HTMLParser_parse_file(body1),
                                      HTMLParser_parse_file(body2)).similarity_score)
      [] filetype = "jsx" ->
            Round2(compare_structures(parse_jsx_with_treesitter(body1),
                                      parse_jsx_with_treesitter(body2)).similarity_score)
      [] filetype = "css" -> compare_css(CssSheet(body1), CssSheet(body2)).css_similarity
      [] OTHER -> compare_files(parse_file(body1), parse_file(body2), err).similarity

\* The aggregate of one type before rounding.
MeanOver(sim_scores, total_files) ==
    IF total_files > 0 THEN QDivInt(QSum(sim_scores), total_files) ELSE Zero

\* A variant of the aggregate that divides by the number of originals only.
AggOverOriginals(n1, n2, pairs) ==
    MeanOver([i \in DOMAIN pairs |-> pairs[i].similarity], n1)

agg_score(n1, n2, pairs) ==
    MeanOver([i \in DOMAIN pairs |-> pairs[i].similarity],
             n1 + n2 - Cardinality({<<pairs[i].original, pairs[i].modified>> : i \in DOMAIN pairs}))

get_prediction(score) ==
    IF QLe(<<3, 4>>, score) THEN "High"
    ELSE IF QLe(<<2, 5>>, score) THEN "Moderate"
    ELSE "Low"

\* ------------------------------------------------------------------------
\* core/forensic_analyzer.py
\* ------------------------------------------------------------------------

QDiv(a, b) == Q(a[1] * b[2], a[2] * b[1])

\* The scores TemplateComparison.__init__ keeps, each with its weight: those
\* of "if html_similarity > 0", "if jsx_similarity > 0", "if js_similarity > 0".
ScoresAndWeights(html_similarity, jsx_similarity, js_similarity) ==
    SelectSeq(<< <<html_similarity, <<3, 10>> >>,
                 <<jsx_similarity, <<3, 10>> >>,
                 <<js_similarity, <<4, 10>> >> >>,
              LAMBDA kept : QLt(Zero, kept[1]))

\* sum(s * w / total_weight), 0.0 when no score is kept; exact arithmetic.
NormalizedMean(kept) ==
    IF kept = <<>> THEN Zero
    ELSE QSum([i \in DOMAIN kept |->
                  QMul(kept[i][1],
                       QDiv(kept[i][2], QSum([k \in DOMAIN kept |-> kept[k][2]])))])

\* The object TemplateComparison.__init__ builds; jsx_present and js_present
\* are accepted and not read.
TemplateComparison(html_similarity, jsx_similarity, js_similarity, html_details, jsx_details, js_details) ==
    [html_similarity |-> html_similarity,
     jsx_similarity |-> jsx_similarity,
     js_similarity |-> js_similarity,
     html_details |-> html_details,
     jsx_details |-> jsx_details,
     js_details |-> js_details,
     overall_similarity |->
         NormalizedMean(ScoresAndWeights(html_similarity, jsx_similarity, js_similarity))]

\* The tail of analyze_templates: a comparison whose two paths were given
\* hands over its score, the others the score 0.0 of the default result.
\* A comparison is <<>> when a path is None and <<score>> when it was made.
ScoreOf(comparison) == IF comparison = <<>> THEN Zero ELSE comparison[1]

analyze_templates(comparisons) ==
    TemplateComparison(ScoreOf(comparisons.html), ScoreOf(comparisons.jsx),
                       ScoreOf(comparisons.js),
                       comparisons.html, comparisons.jsx, comparisons.js)

\* A variant of ForensicAnalyzer._get_prediction whose first threshold is
\* exclusive.
PredictionAboveThreshold(score) ==
    IF QLt(<<3, 4>>, score) THEN "High"
    ELSE IF QLe(<<2, 5>>, score) THEN "Moderate"
    ELSE "Low"

\* ForensicAnalyzer._get_prediction
_get_prediction(score) ==
    IF QLe(<<3, 4>>, score) THEN "High"
    ELSE IF QLe(<<2, 5>>, score) THEN "Moderate"
    ELSE "Low"

\* ------------------------------------------------------------------------
\* State
\* ------------------------------------------------------------------------

VARIABLES
    pc,               \* the step the run is at
    filetype,         \* the type the iteration of match_and_compare_all handles
    original_dir,     \* the files of that type in the original project
    modified_dir,     \* the files of that type in the modified project
    files1, files2,   \* the listed relative paths
    exact, fuzzy, structure, contextual, content_matches,
    rem1, rem2,       \* the paths left over after the exact and fuzzy stages
    matched_pairs,    \* the match records
    unmatched_files,  \* the paths in no record, per side
    results,          \* the type's entry of the report
    tailwind_results, \* the class comparisons kept for the report
    overall_similarity, overall_match_quality,  \* the report's score and its label
    html_source, jsx_source,  \* what the two trees handed to compare_structures come from
    html_tree, jsx_tree,      \* the trees
    result,                   \* the ComparisonResult
    file1, file2,             \* the scripts given to compare_files
    parsed1, parsed2,         \* what parse_file returns for them
    functions1, functions2,   \* the functions extracted from the two trees
    scored,                   \* the similarities of the function pairs
    added,                    \* what each function of the first file adds to matched2
    comparison,               \* its return value
    cg1, cg2,                 \* the call graphs given to compare_call_graphs
    call_graph_similarity,    \* its return value
    css1, css2,               \* the stylesheets given to compare_css
    css_result,               \* its return value
    rules1, rules2,           \* the rule tables given to compare_rule_dicts
    rule_result,              \* its return value
    removed,                  \* the declaration an edit of a sheet has removed
    templates, last_result, result_dict,
    css_value, root_vars, seen, frames, resolved,
    ast, by_parent, agenda, function_stack, call_graph, anon_func_counter, id_map

matching_vars ==
    <<filetype, original_dir, modified_dir, files1, files2, exact, fuzzy, structure,
      contextual, content_matches, rem1, rem2, matched_pairs, unmatched_files, results,
      tailwind_results, overall_similarity, overall_match_quality>>

report_vars == <<tailwind_results, overall_similarity, overall_match_quality>>

analyzer_vars == <<templates, last_result, result_dict>>

custom_vars == <<css_value, root_vars, seen, frames, resolved>>

norm_vars ==
    <<ast, by_parent, agenda, function_stack, call_graph, anon_func_counter, id_map>>

tree_vars == <<html_source, jsx_source, html_tree, jsx_tree, result>>

script_vars ==
    <<file1, file2, parsed1, parsed2, functions1, functions2, scored, added, comparison,
      cg1, cg2, call_graph_similarity>>

style_vars == <<css1, css2, css_result, rules1, rules2, rule_result, removed>>

vars == <<pc, norm_vars, custom_vars, analyzer_vars, matching_vars, tree_vars, script_vars, style_vars>>

NoResult == <<>>

FilesIdle ==
    /\ filetype = "html" /\ original_dir = <<>> /\ modified_dir = <<>>
    /\ files1 = <<>> /\ files2 = <<>>
    /\ exact = <<>> /\ fuzzy = <<>> /\ structure = <<>> /\ contextual = <<>>
    /\ content_matches = <<>> /\ rem1 = <<>> /\ rem2 = <<>>
    /\ matched_pairs = <<>>
    /\ unmatched_files = [original |-> <<>>, modified |-> <<>>]
    /\ results = NoResult
    /\ tailwind_results = <<>>

MatchingIdle ==
    /\ FilesIdle
    /\ overall_similarity = NoResult /\ overall_match_quality = ""

AnalyzerIdle == templates = <<>> /\ last_result = NoResult /\ result_dict = NoResult

NormIdle ==
    /\ ast = NoNode /\ by_parent = TRUE /\ agenda = <<>> /\ function_stack = <<>>
    /\ call_graph = <<>> /\ anon_func_counter = 0 /\ id_map = <<>>

CustomIdle ==
    /\ css_value = <<>> /\ root_vars = <<>> /\ seen = {} /\ frames = <<>> /\ resolved = NoResult

TreeIdle ==
    /\ html_source = <<>> /\ jsx_source = <<>>
    /\ html_tree = EmptyTree /\ jsx_tree = EmptyTree /\ result = NoResult

GraphIdle == cg1 = <<>> /\ cg2 = <<>> /\ call_graph_similarity = NoResult

ScriptIdle ==
    /\ file1 = 0 /\ file2 = 0 /\ comparison = NoResult
    /\ parsed1 = <<>> /\ parsed2 = <<>> /\ functions1 = <<>> /\ functions2 = <<>>
    /\ scored = <<>> /\ added = <<>>
    /\ GraphIdle

NoneRemoved == <<>>

StyleIdle ==
    /\ css1 = <<>> /\ css2 = <<>> /\ css_result = NoResult
    /\ rules1 = <<>> /\ rules2 = <<>> /\ rule_result = NoResult /\ removed = NoneRemoved

\* ------------------------------------------------------------------------
\* match_and_compare_all, one iteration of "for filetype in file_types"
\* ------------------------------------------------------------------------

Init ==
    /\ NormIdle
    /\ CustomIdle
    /\ AnalyzerIdle
    /\ pc = "list"
    /\ filetype \in file_types
    /\ original_dir \in Listings
    /\ modified_dir \in Listings
    /\ Len(original_dir) + Len(modified_dir) <= MaxTotal
    /\ files1 = <<>> /\ files2 = <<>>
    /\ exact = <<>> /\ fuzzy = <<>> /\ structure = <<>> /\ contextual = <<>>
    /\ content_matches = <<>> /\ rem1 = <<>> /\ rem2 = <<>>
    /\ matched_pairs = <<>>
    /\ unmatched_files = [original |-> <<>>, modified |-> <<>>]
    /\ results = NoResult
    /\ tailwind_results = <<>>
    /\ overall_similarity = NoResult /\ overall_match_quality = ""
    /\ TreeIdle /\ ScriptIdle /\ StyleIdle

\* list_files_by_type on both directories.
ListFiles ==
    /\ pc = "list"
    /\ files1' = PathsOf(original_dir)
    /\ files2' = PathsOf(modified_dir)
    /\ pc' = "exact"
    /\ UNCHANGED <<filetype, original_dir, modified_dir, exact, fuzzy, structure, contextual,
                   content_matches, rem1, rem2, matched_pairs, unmatched_files, results,
                   tree_vars, script_vars, style_vars, norm_vars, custom_vars, analyzer_vars, report_vars>>

\* Step 2: exact_path_match.
ExactMatch ==
    /\ pc = "exact"
    /\ exact' = ExactMatches(files1, files2)
    /\ rem1' = ExactUnmatched1(files1, files2)
    /\ rem2' \in ExactUnmatched2(files1, files2)
    /\ pc' = "fuzzy"
    /\ UNCHANGED <<filetype, original_dir, modified_dir, files1, files2, fuzzy, structure,
                   contextual, content_matches, matched_pairs, unmatched_files, results,
                   tree_vars, script_vars, style_vars, norm_vars, custom_vars, analyzer_vars, report_vars>>

\* Step 3: fuzzy_filename_match on what the exact stage left.
FuzzyMatch ==
    /\ pc = "fuzzy"
    /\ fuzzy' = fuzzy_filename_match(rem1, rem2, filetype)
    /\ rem1' = SelectSeq(rem1, LAMBDA f1 : f1 \notin Originals(fuzzy'))
    /\ rem2' = NotUsed(rem2, Used(fuzzy'))
    /\ pc' = "structure"
    /\ UNCHANGED <<filetype, original_dir, modified_dir, files1, files2, exact, structure,
                   contextual, content_matches, matched_pairs, unmatched_files, results,
                   tree_vars, script_vars, style_vars, norm_vars, custom_vars, analyzer_vars, report_vars>>

\* Step 4: structure_match; an exception of a load ends the run.
StructureDone(r) ==
    IF r.raised
    THEN pc' = "raised" /\ UNCHANGED structure
    ELSE pc' = "contextual" /\ structure' = r.matches

StructureMatch ==
    /\ pc = "structure"
    /\ StructureDone(structure_match(rem1, rem2, original_dir, modified_dir, filetype))
    /\ UNCHANGED <<filetype, original_dir, modified_dir, files1, files2, exact, fuzzy,
                   contextual, content_matches, rem1, rem2, matched_pairs, unmatched_files,
                   results, tree_vars, script_vars, style_vars, norm_vars, custom_vars, analyzer_vars, report_vars>>

\* Step 5: contextual_match(rem1, rem2, exact + fuzzy + structure).
ContextualMatch ==
    /\ pc = "contextual"
    /\ contextual' = contextual_match(rem1, rem2, exact \o fuzzy \o structure, filetype)
    /\ pc' = "content"
    /\ UNCHANGED <<filetype, original_dir, modified_dir, files1, files2, exact, fuzzy,
                   structure, content_matches, rem1, rem2, matched_pairs, unmatched_files,
                   results, tree_vars, script_vars, style_vars, norm_vars, custom_vars, analyzer_vars, report_vars>>

\* Step 5.5: content_match_css on the stylesheets left by the structural and
\* contextual stages; nothing for the other types.
ContentDone(r) ==
    IF r.raised
    THEN pc' = "raised" /\ UNCHANGED content_matches
    ELSE pc' = "output" /\ content_matches' = r.matches

ContentMatch ==
    /\ pc = "content"
    /\ IF filetype /= "css" THEN pc' = "output" /\ content_matches' = <<>>
       ELSE ContentDone(content_match_css(
                SelectSeq(rem1, LAMBDA f : f \notin Originals(structure \o contextual)),
                NotUsed(rem2, Used(structure \o contextual)),
                original_dir, modified_dir))
    /\ UNCHANGED <<filetype, original_dir, modified_dir, files1, files2, exact, fuzzy,
                   structure, contextual, rem1, rem2, matched_pairs, unmatched_files,
                   results, tree_vars, script_vars, style_vars, norm_vars, custom_vars, analyzer_vars, report_vars>>

\* Step 6: the match records and the unmatched lists.

OutputPairs ==
    /\ pc = "output"
    /\ matched_pairs' = output_matched_pairs_json(exact, fuzzy, structure, contextual,
                                                  content_matches)
    /\ unmatched_files' =
          [original |-> SelectSeq(files1, LAMBDA f :
                              f \notin {matched_pairs'[i].original : i \in DOMAIN matched_pairs'}),
           modified |-> SelectSeq(files2, LAMBDA f :
                              f \notin {matched_pairs'[i].modified : i \in DOMAIN matched_pairs'})]
    /\ pc' = "compare"
    /\ UNCHANGED <<filetype, original_dir, modified_dir, files1, files2, exact, fuzzy,
                   structure, contextual, content_matches, rem1, rem2, results,
                   tree_vars, script_vars, style_vars, norm_vars, custom_vars, analyzer_vars, report_vars>>

\* Step 7: the comparison of every matched pair, in order; an exception of a
\* markup or stylesheet pair ends the run.
ComparePairs ==
    /\ pc = "compare"
    /\ \E err \in (IF filetype = "js" THEN FloatErrors ELSE {"below"}) :
          IF \E i \in DOMAIN matched_pairs :
                 CompareRaises(filetype, BodyAt(original_dir, matched_pairs[i].original),
                               BodyAt(modified_dir, matched_pairs[i].modified))
          THEN pc' = "raised" /\ UNCHANGED <<matched_pairs, tailwind_results>>
          ELSE /\ pc' = "aggregate"
               /\ tailwind_results' =
                     TailwindResults(matched_pairs, original_dir, modified_dir, filetype)
               /\ matched_pairs' =
                     [i \in DOMAIN matched_pairs |->
                         [original |-> matched_pairs[i].original,
                          modified |-> matched_pairs[i].modified,
                          score |-> matched_pairs[i].score,
                          match_type |-> matched_pairs[i].match_type,
                          similarity |->
                              PairSimilarity(filetype,
                                  BodyAt(original_dir, matched_pairs[i].original),
                                  BodyAt(modified_dir, matched_pairs[i].modified), err)]]
    /\ UNCHANGED <<filetype, original_dir, modified_dir, files1, files2, exact, fuzzy,
                   structure, contextual, content_matches, rem1, rem2, unmatched_files,
                   results, overall_similarity, overall_match_quality,
                   tree_vars, script_vars, style_vars, norm_vars, custom_vars, analyzer_vars>>

NextEnv == <<"n", "e", "x", "t", "-", "e", "n", "v", ".", "d", ".", "t", "s">>

endswith(s, suffix) ==
    Len(suffix) <= Len(s) /\ SubSeq(s, Len(s) - Len(suffix) + 1, Len(s)) = suffix

\* The unmatched list of the script type without the next-env.d.ts files.
WithoutNextEnv(files, type) ==
    IF type = "js"
    THEN SelectSeq(files, LAMBDA f : ~endswith(PathStr(f, type), NextEnv))
    ELSE files

\* Step 8: the type's entry of the report; the unmatched lists of the entry
\* are then filtered in place.
Aggregate ==
    /\ pc = "aggregate"
    /\ results' =
          [files_compared |-> Len(files1),
           files_matched |-> Len(matched_pairs),
           files_unmatched |-> Len(unmatched_files.original) + Len(unmatched_files.modified),
           aggregate_score |-> Round3(agg_score(Len(files1), Len(files2), matched_pairs)),
           prediction |-> get_prediction(agg_score(Len(files1), Len(files2), matched_pairs))]
    /\ unmatched_files' =
          [original |-> WithoutNextEnv(unmatched_files.original, filetype),
           modified |-> WithoutNextEnv(unmatched_files.modified, filetype)]
    /\ pc' = "done"
    /\ UNCHANGED <<filetype, original_dir, modified_dir, files1, files2, exact, fuzzy,
                   structure, contextual, content_matches, rem1, rem2, matched_pairs,
                   tree_vars, script_vars, style_vars, norm_vars, custom_vars, analyzer_vars, report_vars>>

\* The file-count-weighted average over the report. The directories of the
\* model hold files of one type, so the entries of the other three types
\* have no matched pair and no unmatched file; no 'json_similarity' entry
\* exists in results at this point, so no config file is counted.
OverallSimilarity(pairs, unmatched, tailwind) ==
    MeanOver([i \in DOMAIN pairs |-> pairs[i].similarity] \o tailwind,
             Len(pairs) + Len(unmatched.original) + Len(unmatched.modified) + Len(tailwind))

Overall ==
    /\ pc = "done"
    /\ overall_similarity' = OverallSimilarity(matched_pairs, unmatched_files, tailwind_results)
    /\ overall_match_quality' = get_prediction(overall_similarity')
    /\ pc' = "reported"
    /\ UNCHANGED <<filetype, original_dir, modified_dir, files1, files2, exact, fuzzy,
                   structure, contextual, content_matches, rem1, rem2, matched_pairs,
                   unmatched_files, results, tailwind_results,
                   tree_vars, script_vars, style_vars, norm_vars, custom_vars, analyzer_vars>>

Next ==
    \/ ListFiles
    \/ ExactMatch
    \/ FuzzyMatch
    \/ StructureMatch
    \/ ContextualMatch
    \/ ContentMatch
    \/ OutputPairs
    \/ ComparePairs
    \/ Aggregate
    \/ Overall

Spec == Init /\ [][Next]_vars

\* ------------------------------------------------------------------------
\* match_and_compare_all on directories whose markup carries classes and
\* whose scripts include a next-env.d.ts
\* ------------------------------------------------------------------------

ReportPaths(type) ==
    {[dir |-> <<>>, stem |-> <<"x">>],
     IF type = "js"
     THEN [dir |-> <<>>, stem |-> <<"n", "e", "x", "t", "-", "e", "n", "v", ".", "d">>,
           ext |-> <<".", "t", "s">>]
     ELSE [dir |-> <<"a">>, stem |-> <<"x">>]}

ReportBodies == {1, 3, 4}

ReportListings(type) ==
    {fs \in UNION {[1..n -> [path : ReportPaths(type), body : ReportBodies]] : n \in 0..2} :
        /\ \A i, j \in DOMAIN fs : i /= j => fs[i].path /= fs[j].path
        /\ WalkOrder(fs)}

InitReport ==
    /\ NormIdle
    /\ CustomIdle
    /\ AnalyzerIdle
    /\ pc = "list"
    /\ filetype \in file_types
    /\ original_dir \in ReportListings(filetype)
    /\ modified_dir \in ReportListings(filetype)
    /\ files1 = <<>> /\ files2 = <<>>
    /\ exact = <<>> /\ fuzzy = <<>> /\ structure = <<>> /\ contextual = <<>>
    /\ content_matches = <<>> /\ rem1 = <<>> /\ rem2 = <<>>
    /\ matched_pairs = <<>>
    /\ unmatched_files = [original |-> <<>>, modified |-> <<>>]
    /\ results = NoResult
    /\ tailwind_results = <<>>
    /\ overall_similarity = NoResult /\ overall_match_quality = ""
    /\ TreeIdle /\ ScriptIdle /\ StyleIdle

SpecReport == InitReport /\ [][Next]_vars

\* ------------------------------------------------------------------------
\* match_and_compare_all on directories with the folders a and ab
\* ------------------------------------------------------------------------

FolderPaths ==
    {[dir |-> <<"a">>, stem |-> <<"x">>],
     [dir |-> <<"a">>, stem |-> <<"y", "z">>],
     [dir |-> <<"a">>, stem |-> <<"u", "v">>],
     [dir |-> <<"ab">>, stem |-> <<"x">>, folders |-> << <<"a", "b">> >>]}

FolderListings ==
    {fs \in UNION {[1..n -> [path : FolderPaths, body : {1, 2}]] : n \in 0..2} :
        \A i, j \in DOMAIN fs : i /= j => fs[i].path /= fs[j].path}

InitFolders ==
    /\ NormIdle
    /\ CustomIdle
    /\ AnalyzerIdle
    /\ pc = "list"
    /\ filetype \in file_types
    /\ original_dir \in FolderListings
    /\ modified_dir \in FolderListings
    /\ files1 = <<>> /\ files2 = <<>>
    /\ exact = <<>> /\ fuzzy = <<>> /\ structure = <<>> /\ contextual = <<>>
    /\ content_matches = <<>> /\ rem1 = <<>> /\ rem2 = <<>>
    /\ matched_pairs = <<>>
    /\ unmatched_files = [original |-> <<>>, modified |-> <<>>]
    /\ results = NoResult
    /\ tailwind_results = <<>>
    /\ overall_similarity = NoResult /\ overall_match_quality = ""
    /\ TreeIdle /\ ScriptIdle /\ StyleIdle

SpecFolders == InitFolders /\ [][Next]_vars

\* ------------------------------------------------------------------------
\* StructureComparator.compare_structures on two trees, as analyze_html_only
\* calls it: each tree is HTMLParser.parse of a document, or the empty tree
\* of a caller that has no document.
\* ------------------------------------------------------------------------

NoSource == <<>>

Document(children) == SoupTag("[document]", <<>>, children)

Reverse(s) == [i \in DOMAIN s |-> s[Len(s) + 1 - i]]

\* The document with the attributes of every tag written in the reverse order.
RECURSIVE ReverseAttributes(_)
ReverseAttributes(node) ==
    IF node = NoSource \/ node.name = "None" THEN node
    ELSE SoupTag(node.name, Reverse(node.attrs),
                 [i \in DOMAIN node.children |-> ReverseAttributes(node.children[i])])

\* The document with the tokens of every class attribute in the reverse order.
RECURSIVE ReverseClasses(_)
ReverseClasses(node) ==
    IF node = NoSource \/ node.name = "None" THEN node
    ELSE SoupTag(node.name,
                 [i \in DOMAIN node.attrs |->
                     IF node.attrs[i][2].kind = "list"
                     THEN <<node.attrs[i][1], [kind |-> "list", v |-> Reverse(node.attrs[i][2].v)]>>
                     ELSE node.attrs[i]],
                 [i \in DOMAIN node.children |-> ReverseClasses(node.children[i])])

\* A document without the order of its attributes and of its class tokens.
RECURSIVE OrderFree(_)
OrderFree(node) ==
    IF node.name = "None" THEN node
    ELSE [name |-> node.name,
          attrs |-> {<<node.attrs[i][1], node.attrs[i][2].kind,
                       IF node.attrs[i][2].kind = "list"
                       THEN Range(node.attrs[i][2].v) ELSE node.attrs[i][2].v>> :
                     i \in DOMAIN node.attrs},
          children |-> [i \in DOMAIN node.children |-> OrderFree(node.children[i])]]

\* The user's side: the original document again, the same with attributes or
\* class tokens reordered, no document, or one of a few other documents.
UserSources(source) ==
    {source, NoSource, ReverseAttributes(source), ReverseClasses(source),
     Document(<<>>),
     Document(<<SoupTag("div", <<>>, <<SoupText(<<"H", "i">>)>>)>>),
     Document(<<SoupTag("div", << <<"class", [kind |-> "list", v |-> <<"b", "a">>]>> >>, <<>>)>>)}

TreeOf(source) == IF source = NoSource THEN EmptyTree ELSE parse(source)

InitTree ==
    /\ NormIdle
    /\ CustomIdle
    /\ AnalyzerIdle
    /\ pc = "parse_original"
    /\ html_source \in Soups \cup {NoSource}
    /\ jsx_source \in UserSources(html_source)
    /\ html_tree = EmptyTree /\ jsx_tree = EmptyTree /\ result = NoResult
    /\ MatchingIdle /\ ScriptIdle /\ StyleIdle

ParseOriginal ==
    /\ pc = "parse_original"
    /\ html_tree' = TreeOf(html_source)
    /\ pc' = "parse_user"
    /\ UNCHANGED <<html_source, jsx_source, jsx_tree, result, matching_vars, norm_vars, custom_vars, analyzer_vars, script_vars, style_vars>>

ParseUser ==
    /\ pc = "parse_user"
    /\ jsx_tree' = TreeOf(jsx_source)
    /\ pc' = "compare"
    /\ UNCHANGED <<html_source, jsx_source, html_tree, result, matching_vars, norm_vars, custom_vars, analyzer_vars, script_vars, style_vars>>

CompareStructures ==
    /\ pc = "compare"
    /\ result' = compare_structures(html_tree, jsx_tree)
    /\ pc' = "compared"
    /\ UNCHANGED <<html_source, jsx_source, html_tree, jsx_tree, matching_vars, norm_vars, custom_vars, analyzer_vars, script_vars, style_vars>>

NextTree ==
    \/ ParseOriginal
    \/ ParseUser
    \/ CompareStructures

SpecTree == InitTree /\ [][NextTree]_vars

\* ------------------------------------------------------------------------
\* JSLogicAnalyzer.compare_files on two script files
\* ------------------------------------------------------------------------

\* The script files of the model are numbered 0..MaxScript; 0 cannot be read.
MaxScript == 14

InitJS ==
    /\ NormIdle
    /\ CustomIdle
    /\ AnalyzerIdle
    /\ pc = "script"
    /\ file1 \in 0..MaxScript
    /\ file2 \in 0..MaxScript
    /\ comparison = NoResult
    /\ parsed1 = <<>> /\ parsed2 = <<>> /\ functions1 = <<>> /\ functions2 = <<>>
    /\ scored = <<>> /\ added = <<>>
    /\ GraphIdle
    /\ MatchingIdle /\ TreeIdle /\ StyleIdle

CompareFiles ==
    /\ pc = "script"
    /\ parsed1' = parse_file(file1)
    /\ parsed2' = parse_file(file2)
    /\ functions1' = _extract_functions(Get(parsed1', "ast", EmptyDict))
    /\ functions2' = _extract_functions(Get(parsed2', "ast", EmptyDict))
    /\ scored' = PairScores(functions1', functions2')
    /\ added' = FunctionCounts(functions1', functions2', NoCounts).added
    /\ \E err \in FloatErrors :
          comparison' = compare_files(parsed1', parsed2', err)
    /\ pc' = "compared"
    /\ UNCHANGED <<file1, file2, cg1, cg2, call_graph_similarity,
                   matching_vars, norm_vars, custom_vars, analyzer_vars, tree_vars, style_vars>>

NextJS == CompareFiles

SpecJS == InitJS /\ [][NextJS]_vars

\* ------------------------------------------------------------------------
\* JSLogicAnalyzer.compare_call_graphs on two call graphs
\* ------------------------------------------------------------------------

FunctionNames == {"f", "g"}

\* The call graphs over those names: a set of callees per caller.
CallGraphs == UNION {[callers -> SUBSET FunctionNames] : callers \in SUBSET FunctionNames}

InitGraphs ==
    /\ NormIdle
    /\ CustomIdle
    /\ AnalyzerIdle
    /\ pc = "graphs"
    /\ cg1 \in CallGraphs
    /\ cg2 \in CallGraphs
    /\ call_graph_similarity = NoResult
    /\ file1 = 0 /\ file2 = 0 /\ comparison = NoResult
    /\ parsed1 = <<>> /\ parsed2 = <<>> /\ functions1 = <<>> /\ functions2 = <<>>
    /\ scored = <<>> /\ added = <<>>
    /\ MatchingIdle /\ TreeIdle /\ StyleIdle

CompareCallGraphs ==
    /\ pc = "graphs"
    /\ call_graph_similarity' = compare_call_graphs(cg1, cg2)
    /\ pc' = "compared"
    /\ UNCHANGED <<cg1, cg2, file1, file2, parsed1, parsed2, functions1, functions2,
                   scored, added, comparison, matching_vars, norm_vars, custom_vars, analyzer_vars, tree_vars, style_vars>>

NextGraphs == CompareCallGraphs

SpecGraphs == InitGraphs /\ [][NextGraphs]_vars

\* ------------------------------------------------------------------------
\* CSSStyleChecker.compare_css on two stylesheets
\* ------------------------------------------------------------------------

\* Largest number of top-level rules of a modelled stylesheet.
MaxRules == 2

Top == <<"t", "o", "p">>

PlainRules ==
    { Rule(<<"a">>, <<Decl(Top, <<"0">>)>>),
      Rule(<<"p">>, <<Decl(Top, <<"0">>), Decl(<<"l">>, <<"1", "p", "x">>)>>),
      Rule(<<"p">>, <<>>) }

Keyframes(value) == AtRule("keyframes", "k", <<Rule(<<"t", "o">>, <<Decl(Top, value)>>)>>)

\* A rule whose value refers to the custom property --c, and rules of
\* selector :root that declare it.
CustomRules(media_value) ==
    { Rule(<<"a">>, <<Decl(Top, <<VarText>>)>>),
      Rule(RootSelector, <<Decl(VarName, <<"1">>)>>),
      AtRule("media", "m", <<Rule(RootSelector, <<Decl(VarName, media_value)>>)>>) }

\* The rules a modelled stylesheet is made of: plain rules and @media,
\* @supports and @keyframes blocks, nested one level, an empty block, a media
\* block without a query and an at-rule without a block.
SheetRules ==
    PlainRules
    \cup CustomRules(<<"0">>)
    \cup {AtRule("media", "m", <<r>>) :
            r \in PlainRules \cup {AtRule("supports", "s", <<Rule(<<"a">>, <<Decl(Top, <<"0">>)>>)>>),
                                     Keyframes(<<"0">>)}}
    \cup {AtRule("supports", "s", <<r>>) :
            r \in PlainRules \cup {AtRule("media", "m", <<Rule(<<"a">>, <<Decl(Top, <<"1">>)>>)>>)}}
    \cup {Keyframes(<<"#", "F", "F", "F">>), Keyframes(<<"#", "f", "f", "f", "f", "f", "f">>),
          AtRule("media", "m", <<>>),
          AtRule("media", "", <<Rule(<<"a">>, <<Decl(Top, <<"0">>)>>)>>),
          AtRule("import", "u", <<>>)}

Sheets == UNION {[1..n -> SheetRules] : n \in 0..MaxRules}

\* The second stylesheet: the first again, the first with its rules in the
\* reverse order, or one of a few others.
OtherSheets(sheet) ==
    {sheet, Reverse(sheet), <<>>,
     <<Rule(<<"a">>, <<Decl(Top, <<"0">>)>>)>>,
     <<AtRule("supports", "t", <<Rule(<<"a">>, <<Decl(Top, <<"0">>)>>)>>), Keyframes(<<"0">>)>>}

InitCss ==
    /\ NormIdle
    /\ CustomIdle
    /\ AnalyzerIdle
    /\ pc = "style"
    /\ css1 \in Sheets
    /\ css2 \in OtherSheets(css1)
    /\ css_result = NoResult
    /\ rules1 = <<>> /\ rules2 = <<>> /\ rule_result = NoResult /\ removed = NoneRemoved
    /\ MatchingIdle /\ TreeIdle /\ ScriptIdle

\* compare_css(css1, css2): its report, or the exception it raises.
CompareCss ==
    /\ pc = "style"
    /\ css_result' = CssReport(css1, css2, compare_supports(supports(css1), supports(css2)))
    /\ pc' = IF IsException(css_result') THEN "raised" ELSE "compared"
    /\ UNCHANGED <<css1, css2, rules1, rules2, rule_result, removed,
                   matching_vars, norm_vars, custom_vars, analyzer_vars, tree_vars, script_vars>>

NextCss == CompareCss

SpecCss == InitCss /\ [][NextCss]_vars

\* ------------------------------------------------------------------------
\* CSSStyleChecker.compare_rule_dicts on two rule tables, and again after one
\* declaration has been removed from one of them
\* ------------------------------------------------------------------------

BoxNames == {<<"t">>, <<"l">>, <<"r">>, <<"b">>}

BoxValues(name) ==
    IF name \in {<<"t">>, <<"l">>} THEN {<<"0">>, <<"1">>} ELSE {<<"0">>}

\* Declarations of up to four box properties.
BoxProps ==
    UNION {{f \in [names -> {<<"0">>, <<"1">>}] : \A name \in names : f[name] \in BoxValues(name)} :
           names \in (SUBSET BoxNames) \ {{}}}

\* Values of the single property "c": colours and lengths in several spellings.
Spellings ==
    { <<"#", "F", "F", "F">>, <<"#", "f", "f", "f">>, <<"#", "f", "f", "f", "f", "f", "f">>,
      <<"1", "0", "p", "x">>, <<"1", "0", ".", "0", "p", "x">>, <<"2", "0", "p", "x">>,
      <<"1", "e", "m">>, <<"1", ".", "0", "e", "m">>, <<"2", "e", "m">>,
      <<"1", "0">>, <<"1", "0", ".", "0">> }

SpelledProps == {(<<"c">> :> v) : v \in Spellings} \cup {(<<"C">> :> <<"#", "f", "f", "f">>)}

\* A selector's entry of a rule table; parse_css makes none for a selector
\* without declarations.
Entry(sel, props) == IF props = <<>> THEN <<>> ELSE (sel :> props)

Tables1 ==
    {Entry(<<"a">>, a) @@ Entry(<<"p">>, p) :
        a \in BoxProps \cup SpelledProps \cup {<<>>},
        p \in {<<>>, (<<"t">> :> <<"0">>)}}

Tables2 ==
    {Entry(<<"a">>, a) @@ Entry(<<"P">>, p) @@ Entry(<<"q">>, q) :
        a \in BoxProps \cup SpelledProps \cup {<<>>},
        p \in {<<>>, (<<"t">> :> <<"0">>), (<<"t">> :> <<"1">>)},
        q \in {<<>>, (<<"t">> :> <<"0">>)}}

InitRules ==
    /\ NormIdle
    /\ CustomIdle
    /\ AnalyzerIdle
    /\ pc = "rules"
    /\ rules1 \in Tables1
    /\ rules2 \in Tables2
    /\ rule_result = NoResult
    /\ removed = NoneRemoved
    /\ css1 = <<>> /\ css2 = <<>> /\ css_result = NoResult
    /\ MatchingIdle /\ TreeIdle /\ ScriptIdle

\* What compare_rule_dicts returns.
RuleReport(table1, table2) ==
    compare_rule_dicts(table1, table2)
    @@ [per_selector_details |-> per_selector_details(table1, table2)]

CompareRuleDicts ==
    /\ pc = "rules"
    /\ rule_result' = RuleReport(rules1, rules2)
    /\ pc' = "compared"
    /\ UNCHANGED <<rules1, rules2, removed, css1, css2, css_result,
                   matching_vars, norm_vars, custom_vars, analyzer_vars, tree_vars, script_vars>>

\* A rule table after one declaration of a selector has been deleted from
\* the sheet; the selector goes with its last declaration.
Without(table, sel, prop) ==
    IF DOMAIN table[sel] = {prop}
    THEN [k \in DOMAIN table \ {sel} |-> table[k]]
    ELSE [table EXCEPT ![sel] = [k \in DOMAIN table[sel] \ {prop} |-> table[sel][k]]]

\* One declaration is removed from one of the two sheets and the sheets are
\* compared again.
RemoveProperty ==
    /\ pc = "compared"
    /\ \E side \in {1, 2} :
          \E sel \in DOMAIN (IF side = 1 THEN rules1 ELSE rules2) :
             \E prop \in DOMAIN (IF side = 1 THEN rules1 ELSE rules2)[sel] :
                /\ removed' = [side |-> side, sel |-> sel, prop |-> prop,
                               val |-> (IF side = 1 THEN rules1 ELSE rules2)[sel][prop],
                               before |-> rule_result.per_selector_details]
                /\ rules1' = IF side = 1 THEN Without(rules1, sel, prop) ELSE rules1
                /\ rules2' = IF side = 2 THEN Without(rules2, sel, prop) ELSE rules2
    /\ rule_result' = RuleReport(rules1', rules2')
    /\ pc' = "edited"
    /\ UNCHANGED <<css1, css2, css_result, matching_vars, norm_vars, custom_vars, analyzer_vars, tree_vars, script_vars>>

NextRules ==
    \/ CompareRuleDicts
    \/ RemoveProperty

SpecRules == InitRules /\ [][NextRules]_vars

\* ------------------------------------------------------------------------
\* Properties
\* ------------------------------------------------------------------------

\* The steps of match_and_compare_all at which the match records exist.
Recorded == pc \in {"compare", "aggregate", "done"}

\* C1: after all stages have run, no original file is the 'original' of more
\* than one match record.
NoOriginalMatchedTwice ==
    Recorded =>
        \A i, j \in DOMAIN matched_pairs :
            i /= j => matched_pairs[i].original /= matched_pairs[j].original

\* C2: no candidate file is claimed by two different originals across the
\* exact, fuzzy, structural, contextual and content stages combined.
NoCandidateClaimedTwice ==
    Recorded =>
        \A i, j \in DOMAIN matched_pairs :
            matched_pairs[i].modified = matched_pairs[j].modified
                => matched_pairs[i].original = matched_pairs[j].original

\* A finished run whose records include a contextual match beside a match of
\* an earlier stage, the candidates of the earlier ones being used already.
ContextualBesideEarlier ==
    /\ pc = "done"
    /\ \E i, j \in DOMAIN matched_pairs :
          /\ matched_pairs[i].match_type = "contextual"
          /\ matched_pairs[j].match_type \in {"exact", "fuzzy", "fuzzy+structure"}
    /\ Len(files2) >= 2

\* C3: the aggregate score of a type lies within [0, 1].
AggregateWithinUnit ==
    pc = "done" =>
        /\ QLe(Zero, results.aggregate_score)
        /\ QLe(results.aggregate_score, One)

\* C4: an unreadable or unparsable file never makes match_and_compare_all
\* raise: the run goes on to its report.
NeverRaises == pc /= "raised"

\* C5: in compare_files a script that cannot be read or parsed scores
\* similarity 0 against every file, another such file included.
UnreadableScoresZero ==
    (pc = "compared" /\ (~Readable(file1) \/ ~Readable(file2)))
        => comparison.similarity = Zero

\* C6: in the structural stage for markup, two leftover files whose parsed
\* trees are identical do not both stay unpaired: the original is paired, or
\* the candidate has been claimed by an earlier original.
IdenticalTreesPaired ==
    (pc = "contextual" /\ filetype \in {"html", "jsx"}) =>
        \A i \in DOMAIN rem1 : \A j \in DOMAIN rem2 :
            (/\ Readable(BodyAt(original_dir, rem1[i]))
             /\ Readable(BodyAt(modified_dir, rem2[j]))
             /\ StructureTree(filetype, BodyAt(original_dir, rem1[i]))
                    = StructureTree(filetype, BodyAt(modified_dir, rem2[j])))
                => (rem1[i] \in Originals(structure) \/ rem2[j] \in Used(structure))

FuzzyInEncounterOrder ==
    pc \in {"structure", "contextual", "content", "output", "compare", "aggregate", "done"} =>
        fuzzy = fuzzy_filename_match(ExactUnmatched1(files1, files2),
                                     SelectSeq(files2, LAMBDA f2 : f2 \notin Range(files1)),
                                     filetype)

\* C9: compare_structures of a non-empty parsed tree and an exact structural
\* copy of it returns similarity 1.0 with no missing, extra or different element.
TreeIdentity ==
    (pc = "compared" /\ Truthy(html_tree) /\ jsx_tree = html_tree) =>
        /\ result.similarity_score = One
        /\ result.missing_elements = <<>>
        /\ result.extra_elements = <<>>
        /\ result.different_elements = <<>>

\* A document with attributes and nested elements compared with itself.
NestedCopyCompared ==
    /\ pc = "compared"
    /\ html_source /= NoSource
    /\ jsx_source = html_source
    /\ Len(result.matching_elements) >= 3
    /\ \E i \in DOMAIN result.matching_elements :
          Get(result.matching_elements[i][1], "attrs", <<>>) /= <<>>

\* C10: compare_structures of two empty trees returns similarity 1.0 with no
\* matching, different, missing or extra element.
EmptyTreesIdentical ==
    (pc = "compared" /\ ~Truthy(html_tree) /\ ~Truthy(jsx_tree)) =>
        /\ result.similarity_score = One
        /\ result.matching_elements = <<>>
        /\ result.different_elements = <<>>
        /\ result.missing_elements = <<>>
        /\ result.extra_elements = <<>>

\* C11: two documents that differ only in the order of attributes or of class
\* tokens, at any depth, compare with similarity 1.0.
OrderInvariance ==
    (/\ pc = "compared"
     /\ html_source /= NoSource
     /\ jsx_source /= NoSource
     /\ OrderFree(html_source) = OrderFree(jsx_source))
        => result.similarity_score = One

\* C12: compare_css of a stylesheet and itself, @media, @keyframes and
\* @supports blocks included, raises nothing and returns css_similarity 1.0
\* with no missing and no extra selector.
CssIdentity ==
    (pc \in {"compared", "raised"} /\ css2 = css1) =>
        /\ pc = "compared"
        /\ css_result.css_similarity = One
        /\ css_result.missing_selectors = 0
        /\ css_result.extra_selectors = 0

\* The selectors of a rule table and the declarations of one of them, names
\* and values normalised.
SelectorsOf(table) == {norm_sel(k) : k \in DOMAIN table}

DeclarationsOf(table, sel) ==
    UNION {{<<lower_chars(strip(prop)), normalize_css_value(table[k][prop])>> :
              prop \in DOMAIN table[k]} :
           k \in {x \in DOMAIN table : norm_sel(x) = sel}}

\* Properties with equal normalised values over the union of property names.
SharedSimilarity(sel) ==
    Q(Cardinality(DeclarationsOf(rules1, sel) \cap DeclarationsOf(rules2, sel)),
      Cardinality({d[1] : d \in DeclarationsOf(rules1, sel) \cup DeclarationsOf(rules2, sel)}))

\* 1 for a similarity of at least 0.9, the similarity itself from 0.3, else 0.
Contribution(similarity) ==
    IF QLe(<<9, 10>>, similarity) THEN One
    ELSE IF QLe(<<3, 10>>, similarity) THEN similarity
    ELSE Zero

RECURSIVE Contributions(_)
Contributions(sels) ==
    IF sels = {} THEN Zero
    ELSE QAdd(Contribution(SharedSimilarity(CHOOSE x \in sels : TRUE)),
              Contributions(sels \ {CHOOSE x \in sels : TRUE}))

\* C13: compare_rule_dicts scores a rule set as the number of shared selectors
\* of similarity >= 0.9 plus the similarities of those from 0.3 up to 0.9,
\* over the number of selectors of either sheet; selectors of one sheet only
\* are counted as missing or extra.
RuleSetScore ==
    pc \in {"compared", "edited"} =>
        /\ rule_result.missing = Cardinality(SelectorsOf(rules1) \ SelectorsOf(rules2))
        /\ rule_result.extra = Cardinality(SelectorsOf(rules2) \ SelectorsOf(rules1))
        /\ SelectorsOf(rules1) \cup SelectorsOf(rules2) /= {} =>
              rule_result.final_score =
                  QDivInt(Contributions(SelectorsOf(rules1) \cap SelectorsOf(rules2)),
                          Cardinality(SelectorsOf(rules1) \cup SelectorsOf(rules2)))

\* A comparison with a matching selector, a partially matching one and one
\* that only the second sheet has.
MixedSelectors ==
    /\ pc = "compared"
    /\ \E sel \in SelectorsOf(rules1) \cap SelectorsOf(rules2) :
          SharedSimilarity(sel) = One
    /\ \E sel \in SelectorsOf(rules1) \cap SelectorsOf(rules2) :
          QLe(<<3, 10>>, SharedSimilarity(sel)) /\ QLt(SharedSimilarity(sel), <<9, 10>>)
    /\ rule_result.extra = 1
    /\ rule_result.different = 1

\* The selector of the removed declaration is in both sheets after the removal.
StillShared == norm_sel(removed.sel) \in DOMAIN rule_result.per_selector_details

\* The similarity compare_rule_dicts reports for the selector of the removed declaration.
ReportedSimilarity == rule_result.per_selector_details[norm_sel(removed.sel)].similarity

\* Before its removal the declaration had an equal on the other side: the
\* same normalised name with the same normalised value.
RemovedWasMatched ==
    <<lower_chars(strip(removed.prop)), normalize_css_value(removed.val)>>
        \in DeclarationsOf(IF removed.side = 1 THEN rules2 ELSE rules1, norm_sel(removed.sel))

\* The similarity reported for that selector before the removal.
EarlierSimilarity == removed.before[norm_sel(removed.sel)].similarity

Meaning(value) ==
    CASE value \in {<<"#", "F", "F", "F">>, <<"#", "f", "f", "f">>,
                    <<"#", "f", "f", "f", "f", "f", "f">>} -> <<"white", "">>
      [] value \in {<<"1", "0", "p", "x">>, <<"1", "0", ".", "0", "p", "x">>} -> <<"10", "px">>
      [] value = <<"2", "0", "p", "x">> -> <<"20", "px">>
      [] value \in {<<"1", "e", "m">>, <<"1", ".", "0", "e", "m">>} -> <<"1", "em">>
      [] value = <<"2", "e", "m">> -> <<"2", "em">>
      [] OTHER -> <<"10", "">>

\* C15: in the comparison of a selector two values that differ only in the
\* case or shorthand of a hex colour, or in a redundant decimal point of an
\* integral magnitude of any unit, are equal, and values of different units
\* or magnitudes are not.
ValueNormalization ==
    (/\ pc = "compared"
     /\ <<"a">> \in DOMAIN rules1 /\ <<"a">> \in DOMAIN rules2
     /\ DOMAIN rules1[<<"a">>] = {<<"c">>} /\ DOMAIN rules2[<<"a">>] = {<<"c">>})
        => ((Meaning(rules1[<<"a">>][<<"c">>]) = Meaning(rules2[<<"a">>][<<"c">>]))
               <=> rule_result.per_selector_details[<<"a">>].similarity = One)

\* The (caller, callee) pairs of a call graph.
EdgeSet(graph) == UNION {{<<caller, callee>> : callee \in graph[caller]} : caller \in DOMAIN graph}

\* C16: compare_call_graphs returns a value in [0,1]: 1.0 for identical edge
\* sets (two empty ones included), 0.0 when exactly one edge set is empty or
\* the two non-empty sets are disjoint, and otherwise |intersection| / |union|.
CallGraphJaccard ==
    (pc = "compared" /\ call_graph_similarity /= NoResult) =>
        /\ QLe(Zero, call_graph_similarity) /\ QLe(call_graph_similarity, One)
        /\ EdgeSet(cg1) = EdgeSet(cg2) => call_graph_similarity = One
        /\ (EdgeSet(cg1) = {}) /= (EdgeSet(cg2) = {}) => call_graph_similarity = Zero
        /\ (/\ EdgeSet(cg1) /= {} /\ EdgeSet(cg2) /= {}
            /\ EdgeSet(cg1) \cap EdgeSet(cg2) = {}) => call_graph_similarity = Zero
        /\ (EdgeSet(cg1) /= {} /\ EdgeSet(cg2) /= {}) =>
              call_graph_similarity = Q(Cardinality(EdgeSet(cg1) \cap EdgeSet(cg2)),
                                        Cardinality(EdgeSet(cg1) \cup EdgeSet(cg2)))

\* Two call graphs of different callers, neither with an edge, have been compared.
EdgelessGraphsCompared ==
    /\ pc = "compared" /\ call_graph_similarity = One
    /\ DOMAIN cg1 /= DOMAIN cg2
    /\ EdgeSet(cg1) = {} /\ EdgeSet(cg2) = {}

\* C17: the function matching of compare_files is exclusive: no function of
\* the second file is taken by two functions of the first, and extra_functions
\* is the number of functions of the second file that none has taken.
ExclusiveFunctionMatching ==
    (pc = "compared" /\ comparison /= NoResult) =>
        /\ \A i, j \in DOMAIN added : (i /= j /\ added[i] /= 0) => added[i] /= added[j]
        /\ comparison.extra_functions =
              Cardinality({k \in DOMAIN functions2 : \A i \in DOMAIN added : added[i] /= k})

\* C18: a script compared with an exact copy of itself has similarity 1.0,
\* as many matching functions as it has functions, and no different, missing
\* or extra function, also when several of its functions have the same name.
ScriptIdentity ==
    (pc = "compared" /\ comparison /= NoResult /\ Readable(file1) /\ file2 = file1) =>
        /\ comparison.similarity = One
        /\ comparison.matching_functions = Len(functions1)
        /\ comparison.different_functions = 0
        /\ comparison.missing_functions = 0
        /\ comparison.extra_functions = 0

\* The child of a normalised function node of the given type.
PartOf(func, type) ==
    func.children[CHOOSE i \in DOMAIN func.children : func.children[i].type = type]

\* The number of parameters of a normalised function node.
ParameterCount(func) ==
    Cardinality({i \in DOMAIN PartOf(func, "formal_parameters").children :
                    PartOf(func, "formal_parameters").children[i].type = "identifier"})

\* The structure of a normalised tree: the node types, without names or values.
RECURSIVE Shape(_)
Shape(node) ==
    <<Get(node, "type", None),
      [i \in DOMAIN Get(node, "children", <<>>) |-> Shape(node.children[i])]>>

\* C19: a function pair scores 0.3 * signature + 0.7 * body; two functions
\* whose normalised bodies differ in structure have a body similarity below
\* 1.0, and two of the same name but different parameter counts have the
\* signature similarity 0.5.
PairScoreParts ==
    (pc = "compared" /\ comparison /= NoResult) =>
        \A i \in DOMAIN functions1 : \A j \in DOMAIN functions2 :
            /\ scored[i][j].similarity =
                  QAdd(QMul(<<3, 10>>, scored[i][j].sig_similarity),
                       QMul(<<7, 10>>, scored[i][j].body_similarity))
            /\ Shape(PartOf(functions1[i], "statement_block"))
                    /= Shape(PartOf(functions2[j], "statement_block"))
                  => QLt(scored[i][j].body_similarity, One)
            /\ (/\ functions1[i].name = functions2[j].name
                /\ ParameterCount(functions1[i]) /= ParameterCount(functions2[j]))
                  => scored[i][j].sig_similarity = <<1, 2>>

\* A syntax tree with every occurrence of one identifier renamed.
RECURSIVE Renamed(_, _, _)
Renamed(node, from, to) ==
    [node EXCEPT
        !.text = IF node.type = "identifier" /\ node.text = from THEN to ELSE @,
        !.children = [i \in DOMAIN node.children |-> Renamed(node.children[i], from, to)]]

\* C20: two sources that differ only in the name of one local variable are
\* normalised to the same tree of aliases and the same call-graph edges, and
\* their function and body similarities are 1.0.
RenamingInvariance ==
    (/\ pc = "compared" /\ comparison /= NoResult
     /\ Readable(file1) /\ Readable(file2)
     /\ JsSource(file2) /= JsSource(file1)
     /\ JsSource(file2) = Renamed(JsSource(file1), "x", "y")) =>
        /\ parsed1.ast = parsed2.ast
        /\ EdgeSet(parsed1.call_graph) = EdgeSet(parsed2.call_graph)
        /\ comparison.function_similarity = One
        /\ \A i \in DOMAIN functions1 : scored[i][i].body_similarity = One

\* The files of a listing that are no side of any matched pair.
FilesLeft(files, side) ==
    {f \in Range(files) : \A i \in DOMAIN matched_pairs : matched_pairs[i][side] /= f}

\* C21: the overall similarity of a run is the sum of the similarities of the
\* matched pairs and of the class-usage results, divided by the number of
\* matched pairs, of files of either directory left without a partner and of
\* class-usage results; it lies between 0 and 1.
FileCountWeightedMean ==
    pc = "reported" =>
        /\ overall_similarity =
              MeanOver([i \in DOMAIN matched_pairs |-> matched_pairs[i].similarity]
                          \o tailwind_results,
                       Len(matched_pairs)
                          + Cardinality(FilesLeft(files1, "original"))
                          + Cardinality(FilesLeft(files2, "modified"))
                          + Len(tailwind_results))
        /\ QLe(Zero, overall_similarity) /\ QLe(overall_similarity, One)

\* ------------------------------------------------------------------------
\* ForensicAnalyzer: analyze_templates, then export_results
\* ------------------------------------------------------------------------

\* The scores a comparison can hand over.
Scores == {Zero, <<1, 2>>, <<3, 4>>, One}

Comparisons == {<<>>} \cup {<<score>> : score \in Scores}

InitAnalyzer ==
    /\ NormIdle
    /\ CustomIdle
    /\ pc = "analyze"
    /\ templates \in [html : Comparisons, jsx : Comparisons, js : Comparisons]
    /\ last_result = NoResult /\ result_dict = NoResult
    /\ MatchingIdle /\ TreeIdle /\ ScriptIdle /\ StyleIdle

AnalyzeTemplates ==
    /\ pc = "analyze"
    /\ last_result' = analyze_templates(templates)
    /\ pc' = "analyzed"
    /\ UNCHANGED <<templates, result_dict, matching_vars, norm_vars, custom_vars, tree_vars, script_vars, style_vars>>

\* The scores export_results writes and the label of the overall one.
ExportResults ==
    /\ pc = "analyzed"
    /\ result_dict' =
          [overall_similarity |-> last_result.overall_similarity,
           prediction |-> _get_prediction(last_result.overall_similarity),
           html_comparison |-> last_result.html_similarity,
           jsx_comparison |-> last_result.jsx_similarity,
           js_comparison |-> last_result.js_similarity]
    /\ pc' = "exported"
    /\ UNCHANGED <<templates, last_result, matching_vars, norm_vars, custom_vars, tree_vars, script_vars, style_vars>>

NextAnalyzer ==
    \/ AnalyzeTemplates
    \/ ExportResults

SpecAnalyzer == InitAnalyzer /\ [][NextAnalyzer]_vars

\* ------------------------------------------------------------------------
\* The two prediction functions on the same score
\* ------------------------------------------------------------------------

\* The scores are the multiples of 1 / Steps between 0 and 1.
Steps == 100

InitPrediction ==
    /\ NormIdle
    /\ CustomIdle
    /\ pc = "score"
    /\ overall_similarity \in {Q(k, Steps) : k \in 0..Steps}
    /\ overall_match_quality = ""
    /\ templates = <<>>
    /\ last_result = [overall_similarity |-> overall_similarity]
    /\ result_dict = NoResult
    /\ FilesIdle /\ TreeIdle /\ ScriptIdle /\ StyleIdle

\* get_prediction of file_matcher and _get_prediction of the analyzer on
\* the score.
Predict ==
    /\ pc = "score"
    /\ overall_match_quality' = get_prediction(overall_similarity)
    /\ result_dict' = [overall_similarity |-> last_result.overall_similarity,
                       prediction |-> _get_prediction(last_result.overall_similarity)]
    /\ pc' = "predicted"
    /\ UNCHANGED <<filetype, original_dir, modified_dir, files1, files2, exact, fuzzy,
                   structure, contextual, content_matches, rem1, rem2, matched_pairs,
                   unmatched_files, results, tailwind_results, overall_similarity,
                   templates, last_result, tree_vars, script_vars, style_vars, norm_vars, custom_vars>>

NextPrediction == Predict

SpecPrediction == InitPrediction /\ [][NextPrediction]_vars

\* C22: a score of at least 0.75 is labelled High, one of at least 0.40 and
\* below 0.75 Moderate, one below 0.40 Low, and the matcher's and the
\* analyzer's functions give the same label.
PredictionLabels ==
    pc = "predicted" =>
        /\ result_dict.prediction = overall_match_quality
        /\ 4 * overall_similarity[1] >= 3 * overall_similarity[2]
              => overall_match_quality = "High"
        /\ (/\ 5 * overall_similarity[1] >= 2 * overall_similarity[2]
            /\ 4 * overall_similarity[1] < 3 * overall_similarity[2])
              => overall_match_quality = "Moderate"
        /\ 5 * overall_similarity[1] < 2 * overall_similarity[2]
              => overall_match_quality = "Low"

\* A score of exactly 0.75 has been labelled.
ThresholdScoreLabelled == pc = "predicted" /\ overall_similarity = <<3, 4>>

\* The scores of the comparisons made, each with its weight.
PerformedScores ==
    (IF templates.html /= <<>> THEN << <<templates.html[1], <<3, 10>> >> >> ELSE <<>>)
    \o (IF templates.jsx /= <<>> THEN << <<templates.jsx[1], <<3, 10>> >> >> ELSE <<>>)
    \o (IF templates.js /= <<>> THEN << <<templates.js[1], <<4, 10>> >> >> ELSE <<>>)

\* C23: the overall similarity of a TemplateComparison is the sum of score
\* times weight over the comparisons performed, divided by the sum of their
\* weights; a comparison performed with score 0 is one of them.
WeightNormalizedMean ==
    (pc \in {"analyzed", "exported"} /\ PerformedScores /= <<>>) =>
        last_result.overall_similarity =
            QDiv(QSum([i \in DOMAIN PerformedScores |->
                          QMul(PerformedScores[i][1], PerformedScores[i][2])]),
                 QSum([i \in DOMAIN PerformedScores |-> PerformedScores[i][2]]))

\* The normalised syntax tree of the file at a path of a directory.
TreeAt(dir, path) == parse_jsx_with_treesitter(BodyAt(dir, path)).ast

\* C24: the similarity recorded for a matched JSX pair is the comparator's
\* score, rounded to hundredths, on the normalised syntax trees of the two
\* files, and it is below 1.0 when the two trees differ in structure.
JsxPairSimilarity ==
    (filetype = "jsx" /\ pc \in {"aggregate", "done", "reported"}) =>
        \A i \in DOMAIN matched_pairs :
            /\ matched_pairs[i].similarity =
                  Round2(compare_structures(
                             TreeAt(original_dir, matched_pairs[i].original),
                             TreeAt(modified_dir, matched_pairs[i].modified)).similarity_score)
            /\ Shape(TreeAt(original_dir, matched_pairs[i].original))
                    /= Shape(TreeAt(modified_dir, matched_pairs[i].modified))
                  => QLt(matched_pairs[i].similarity, One)

\* The folders a path lies in, outermost first.
FoldersOf(path) == SubSeq(split(path, filetype), 1, Len(split(path, filetype)) - 1)

\* Whether the file at a path lies in the folder, or below it.
LiesIn(path, folder) ==
    /\ Len(folder) <= Len(FoldersOf(path))
    /\ SubSeq(FoldersOf(path), 1, Len(folder)) = folder

\* 0.7 times the share of equal leading folders in the segments of the
\* longer path, plus 0.3 times the share, in one more than the pairs matched
\* so far, of the pairs lying in the two parent folders.
StatedScore(f1, f2, pairs) ==
    QAdd(QMul(<<7, 10>>,
              Q(CommonFolders(FoldersOf(f1), FoldersOf(f2)),
                Max(Len(FoldersOf(f1)), Len(FoldersOf(f2))) + 1)),
         QMul(<<3, 10>>,
              Q(Cardinality({i \in DOMAIN pairs :
                                /\ LiesIn(pairs[i][1], FoldersOf(f1))
                                /\ LiesIn(pairs[i][2], FoldersOf(f2))}),
                1 + Len(pairs))))

\* The candidates no earlier pair and no earlier turn of the contextual
\* stage has claimed when the original at position p has its turn.
Unclaimed(p) ==
    {c \in Range(rem2) :
        /\ c \notin Used(exact \o fuzzy \o structure)
        /\ \A i \in DOMAIN contextual :
              (\E q \in 1..(p - 1) : rem1[q] = contextual[i][1]) => contextual[i][2] /= c}

\* C25: the contextual stage scores a pair by 0.7 * folder share + 0.3 *
\* neighbour share, and pairs an original with a best unclaimed candidate if
\* and only if that score is at least 0.5.
ContextualPairing ==
    pc = "content" =>
        \A p \in DOMAIN rem1 :
            IF \E c \in Unclaimed(p) :
                   QLe(<<1, 2>>, StatedScore(rem1[p], c, exact \o fuzzy \o structure))
            THEN \E i \in DOMAIN contextual :
                    /\ contextual[i][1] = rem1[p]
                    /\ contextual[i][2] \in Unclaimed(p)
                    /\ contextual[i][3] =
                          StatedScore(rem1[p], contextual[i][2], exact \o fuzzy \o structure)
                    /\ \A c \in Unclaimed(p) :
                          QLe(StatedScore(rem1[p], c, exact \o fuzzy \o structure),
                              contextual[i][3])
            ELSE \A i \in DOMAIN contextual : contextual[i][1] /= rem1[p]

\* ------------------------------------------------------------------------
\* CSSStyleChecker.resolve_vars (core/css_style_checker.py)
\* ------------------------------------------------------------------------

MaxDepth == 4

MaxPieces == 2

PropertyNames == {"--a", "--b"}

Pieces == {Lit(<<"x">>), VarRef("--a", <<>>), VarRef("--b", <<>>)}

ValuePieces == Pieces \cup {VarRef("--c", <<>>), VarRef("--c", << <<"y", " ">> >>),
                            VarRef("--a", << <<"y">> >>)}

SeqsUpTo(S, n) == UNION {[1..k -> S] : k \in 0..n}

InitVars ==
    /\ NormIdle
    /\ AnalyzerIdle
    /\ MatchingIdle
    /\ TreeIdle
    /\ ScriptIdle
    /\ StyleIdle
    /\ pc = "resolve"
    /\ css_value \in SeqsUpTo(ValuePieces, MaxPieces)
    /\ root_vars \in [PropertyNames -> {<<>>} \cup {<<v>> : v \in SeqsUpTo(Pieces, MaxPieces)}]
    /\ seen = {}
    /\ frames = << [rest |-> css_value, out |-> <<>>] >>
    /\ resolved = NoResult

Frame == frames[Len(frames)]

Callers == SubSeq(frames, 1, Len(frames) - 1)

\* The frame on top after the piece at the head of its input gave `pieces`.
Emitted(pieces) == [rest |-> Tail(Frame.rest), out |-> Frame.out \o pieces]

\* re.sub copies the text between two matches.
Scan ==
    /\ pc = "resolve"
    /\ frames /= <<>>
    /\ Frame.rest /= <<>>
    /\ Head(Frame.rest).kind = "lit"
    /\ frames' = Append(Callers, Emitted(<<Head(Frame.rest)>>))
    /\ UNCHANGED <<pc, css_value, root_vars, seen, resolved, analyzer_vars, matching_vars, norm_vars,
                   tree_vars, script_vars, style_vars>>

\* repl, called by re.sub for the next match.
repl ==
    /\ pc = "resolve"
    /\ frames /= <<>>
    /\ Frame.rest /= <<>>
    /\ Head(Frame.rest).kind = "var"
    /\ LET varname == Head(Frame.rest).name
           fallback == Head(Frame.rest).fallback
       IN  IF varname \in seen
           THEN /\ frames' = Append(Callers, Emitted(<<Unexpanded(varname)>>))
                /\ seen' = seen
           ELSE /\ seen' = add(seen, varname)
                /\ IF get(root_vars, varname) /= <<>>
                   THEN /\ Len(frames) < MaxDepth
                        /\ frames' = Append(Append(Callers, Emitted(<<>>)),
                                            [rest |-> get(root_vars, varname)[1],
                                             out |-> <<>>])
                   ELSE IF fallback /= <<>>
                   THEN frames' = Append(Callers, Emitted(<<Lit(strip(fallback[1]))>>))
                   ELSE frames' = Append(Callers, Emitted(<<Unexpanded(varname)>>))
    /\ UNCHANGED <<pc, css_value, root_vars, resolved, analyzer_vars, matching_vars, norm_vars,
                   tree_vars, script_vars, style_vars>>

\* re.sub reached the end of its input: resolve_vars returns, to repl or to
\* the caller.
Return ==
    /\ pc = "resolve"
    /\ frames /= <<>>
    /\ Frame.rest = <<>>
    /\ IF Len(frames) = 1
       THEN /\ resolved' = Frame.out
            /\ frames' = <<>>
            /\ pc' = "resolved"
       ELSE /\ frames' = Append(SubSeq(frames, 1, Len(frames) - 2),
                                [rest |-> frames[Len(frames) - 1].rest,
                                 out |-> frames[Len(frames) - 1].out \o Frame.out])
            /\ UNCHANGED <<pc, resolved>>
    /\ UNCHANGED <<css_value, root_vars, seen, analyzer_vars, matching_vars, norm_vars,
                   tree_vars, script_vars, style_vars>>

NextVars == Scan \/ repl \/ Return

SpecVars == InitVars /\ [][NextVars]_vars

\* The interpreter runs the one thread of resolve_vars until it returns.
FairSpecVars == SpecVars /\ WF_vars(NextVars)

\* The nesting of resolve_vars never exceeds one call per recorded variable.
DepthWithinSeen == Len(frames) <= Cardinality(seen) + 1

\* C26: resolve_vars returns for every value and every root-variable map,
\* those whose custom properties reference themselves or each other included.
ResolveTerminates == <>(pc = "resolved")

Refers(varname, other) ==
    /\ get(root_vars, varname) /= <<>>
    /\ \E i \in DOMAIN get(root_vars, varname)[1] :
          get(root_vars, varname)[1][i] = VarRef(other, <<>>)

CyclicMapResolved ==
    /\ pc = "resolved"
    /\ Refers("--a", "--b")
    /\ Refers("--b", "--a")
    /\ \E i \in DOMAIN css_value : css_value[i].name = "--a"

\* The value the description gives: every reference to a defined property is
\* replaced by the property's resolved value, except a reference to a
\* property that is being resolved on the path that leads to it.
RECURSIVE StatedResolve(_, _)
StatedResolve(pieces, path) ==
    IF pieces = <<>> THEN <<>>
    ELSE LET piece == Head(pieces)
             this == IF piece.kind = "lit" THEN <<piece>>
                     ELSE IF piece.name \in path THEN <<Unexpanded(piece.name)>>
                     ELSE IF get(root_vars, piece.name) /= <<>>
                     THEN StatedResolve(get(root_vars, piece.name)[1],
                                        path \cup {piece.name})
                     ELSE IF piece.fallback /= <<>>
                     THEN <<Lit(strip(piece.fallback[1]))>>
                     ELSE <<Unexpanded(piece.name)>>
         IN  this \o StatedResolve(Tail(pieces), path)

Defined(pieces) ==
    \A i \in DOMAIN pieces :
        pieces[i].kind = "var" => get(root_vars, pieces[i].name) /= <<>>

\* Every reference of the value and of the properties' values names a
\* defined property.
AllDefined ==
    /\ Defined(css_value)
    /\ \A varname \in DOMAIN root_vars :
          get(root_vars, varname) /= <<>> => Defined(get(root_vars, varname)[1])

\* C27: the result of resolve_vars has every reference to a defined property
\* replaced by its fully resolved value, at every occurrence; only a
\* reference to a property being resolved on the current path is left.
ExpandedAtEveryOccurrence ==
    pc = "resolved" /\ AllDefined => resolved = StatedResolve(css_value, {})

\* ------------------------------------------------------------------------
\* The traversal of _normalize_ast_with_call_graph and normalize_node, one
\* node at a time (core/js_logic_analyzer.py, core/jsx_treesitter_parser.py)
\* ------------------------------------------------------------------------

MaxStatements == 2

\* (parameters) => { statements }
ArrowFunction(statements) ==
    Inner("arrow_function",
          <<Inner("formal_parameters", <<Kw("("), Kw(")")>>), Kw("=>"), Block(statements)>>)

ArrowStmt(statements) == Inner("expression_statement", <<ArrowFunction(statements)>>)

\* var name = () => { statements };
VarArrow(name, statements) ==
    Inner("variable_declaration",
          <<Kw("var"),
            Named("variable_declarator", <<Ident(name), Kw("="), ArrowFunction(statements)>>, 1),
            Kw(";")>>)

CallBodies == {<<>>, <<CallStmt("f")>>, <<CallStmt("k")>>}

Statements ==
    {CallStmt("f"), ImportStmt("m")}
    \cup {FunctionDecl("f", b) : b \in CallBodies}
    \cup {ArrowStmt(b) : b \in CallBodies}
    \cup {VarArrow("x", b) : b \in CallBodies}
    \cup {FunctionDecl("g", <<ArrowStmt(b), CallStmt("f")>>) : b \in CallBodies}

RECURSIVE NodeAt(_, _)
NodeAt(node, path) ==
    IF path = <<>> THEN node ELSE NodeAt(node.children[Head(path)], Tail(path))

\* node.parent
ParentAt(path) ==
    IF path = <<>> THEN NoNode ELSE NodeAt(ast, SubSeq(path, 1, Len(path) - 1))

\* function_stack.pop() that removes nothing.
peek(stack) == stack

\* function_stack.pop()
pop(stack) == SubSeq(stack, 1, Len(stack) - 1)

\* self._get_node_name(node) of the script analyzer, get_function_name(node)
\* of the JSX parser.
FunctionName(path) ==
    _get_node_name(NodeAt(ast, path), IF by_parent THEN ParentAt(path) ELSE NoNode)

InitNormalize ==
    /\ CustomIdle
    /\ AnalyzerIdle
    /\ MatchingIdle
    /\ TreeIdle
    /\ ScriptIdle
    /\ StyleIdle
    /\ pc = "normalize"
    /\ ast \in {Program(statements) : statements \in SeqsUpTo(Statements, MaxStatements)}
    /\ by_parent \in BOOLEAN
    /\ agenda = <<>>
    /\ function_stack = <<>>
    /\ call_graph = EmptyDict
    /\ anon_func_counter = 0
    /\ id_map = <<>>

\* The call in progress: the node whose children are being normalised.
Active == agenda[Len(agenda)]

\* The node the next call is made for: the root, or the next child.
Here == IF agenda = <<>> THEN <<>> ELSE Active.path \o <<Active.next>>

Calling ==
    /\ pc = "normalize"
    /\ IF agenda = <<>> THEN TRUE
       ELSE Active.next <= Len(NodeAt(ast, Active.path).children)

\* The agenda after the call for the node at Here returned to its caller.
Returned(calls) ==
    IF calls = <<>> THEN <<>>
    ELSE [calls EXCEPT ![Len(calls)] = [path |-> @.path, next |-> @.next + 1]]

Entered == Append(agenda, [path |-> Here, next |-> 1])

NormalizeIdentifier ==
    /\ Calling
    /\ NodeAt(ast, Here).type = "identifier"
    /\ id_map' = IF NodeAt(ast, Here).text \in Range(id_map) THEN id_map
                 ELSE Append(id_map, NodeAt(ast, Here).text)
    /\ agenda' = Returned(agenda)
    /\ pc' = IF agenda = <<>> THEN "normalized" ELSE pc
    /\ UNCHANGED <<ast, by_parent, function_stack, call_graph, anon_func_counter,
                   custom_vars, analyzer_vars, matching_vars, tree_vars, script_vars,
                   style_vars>>

NormalizeLiteral ==
    /\ Calling
    /\ NodeAt(ast, Here).type \in LiteralTypes
    /\ agenda' = Returned(agenda)
    /\ pc' = IF agenda = <<>> THEN "normalized" ELSE pc
    /\ UNCHANGED <<ast, by_parent, function_stack, call_graph, anon_func_counter, id_map,
                   custom_vars, analyzer_vars, matching_vars, tree_vars, script_vars,
                   style_vars>>

\* A function definition, up to the loop over its children.
EnterFunction ==
    /\ Calling
    /\ NodeAt(ast, Here).type \in FunctionTypes
    /\ LET func_name == IF FunctionName(Here) /= None THEN FunctionName(Here)
                        ELSE AnonName(anon_func_counter)
       IN  /\ anon_func_counter' = IF FunctionName(Here) /= None THEN anon_func_counter
                                   ELSE anon_func_counter + 1
           /\ function_stack' = Append(function_stack, func_name)
           /\ call_graph' = setdefault(call_graph, func_name)
    /\ agenda' = Entered
    /\ UNCHANGED <<pc, ast, by_parent, id_map,
                   custom_vars, analyzer_vars, matching_vars, tree_vars, script_vars,
                   style_vars>>

\* A call expression, up to the loop over its children.
EnterCall ==
    /\ Calling
    /\ NodeAt(ast, Here).type = "call_expression"
    /\ LET callee == _get_callee_name(NodeAt(ast, Here).children, id_map)
       IN  call_graph' = IF function_stack /= <<>> /\ callee /= None
                         THEN AddEdge(call_graph, function_stack[Len(function_stack)], callee)
                         ELSE call_graph
    /\ agenda' = Entered
    /\ UNCHANGED <<pc, ast, by_parent, function_stack, anon_func_counter, id_map,
                   custom_vars, analyzer_vars, matching_vars, tree_vars, script_vars,
                   style_vars>>

\* Any other node, up to the loop over its children.
EnterOther ==
    /\ Calling
    /\ NodeAt(ast, Here).type \notin
          {"identifier", "call_expression"} \cup LiteralTypes \cup FunctionTypes
    /\ agenda' = Entered
    /\ UNCHANGED <<pc, ast, by_parent, function_stack, call_graph, anon_func_counter, id_map,
                   custom_vars, analyzer_vars, matching_vars, tree_vars, script_vars,
                   style_vars>>

\* The loop over the children is over: a function definition pops its name,
\* and the call returns.
Leave ==
    /\ pc = "normalize"
    /\ agenda /= <<>>
    /\ Active.next > Len(NodeAt(ast, Active.path).children)
    /\ function_stack' = IF NodeAt(ast, Active.path).type \in FunctionTypes
                         THEN pop(function_stack)
                         ELSE function_stack
    /\ agenda' = Returned(SubSeq(agenda, 1, Len(agenda) - 1))
    /\ pc' = IF Len(agenda) = 1 THEN "normalized" ELSE pc
    /\ UNCHANGED <<ast, by_parent, call_graph, anon_func_counter, id_map,
                   custom_vars, analyzer_vars, matching_vars, tree_vars, script_vars,
                   style_vars>>

NextNormalize ==
    \/ NormalizeIdentifier
    \/ NormalizeLiteral
    \/ EnterFunction
    \/ EnterCall
    \/ EnterOther
    \/ Leave

SpecNormalize == InitNormalize /\ [][NextNormalize]_vars

\* The nodes of the tree, parents before children and in source order.
RECURSIVE Preorder(_, _)
RECURSIVE PreorderFrom(_, _, _)
PreorderFrom(node, path, i) ==
    IF i > Len(node.children) THEN <<>>
    ELSE Preorder(node.children[i], path \o <<i>>) \o PreorderFrom(node, path, i + 1)

Preorder(node, path) == <<path>> \o PreorderFrom(node, path, 1)

IsFunction(path) == NodeAt(ast, path).type \in FunctionTypes

IsAnonymous(path) == IsFunction(path) /\ FunctionName(path) = None

Prefixes(path) == {SubSeq(path, 1, n) : n \in 0..Len(path)}

\* The name of a function: its own, or anon_func_N for the N-th function
\* without one (counted from 0 in source order).
LexicalName(path) ==
    IF ~IsAnonymous(path) THEN FunctionName(path)
    ELSE LET order == Preorder(ast, <<>>)
         IN  AnonName(Cardinality({i \in 1..(IndexOf(order, path) - 1) : IsAnonymous(order[i])}))

\* The functions enclosing a node (the node included), outermost first.
Enclosing(path) ==
    SelectSeq([n \in 1..(Len(path) + 1) |-> SubSeq(path, 1, n - 1)], IsFunction)

EnclosingNames(path) == [i \in DOMAIN Enclosing(path) |-> LexicalName(Enclosing(path)[i])]

\* The identifiers met before a node, each once, in source order.
RECURSIVE Distinct(_)
Distinct(texts) ==
    IF texts = <<>> THEN <<>>
    ELSE LET front == Distinct(SubSeq(texts, 1, Len(texts) - 1))
         IN  IF texts[Len(texts)] \in Range(front) THEN front
             ELSE Append(front, texts[Len(texts)])

IdentifiersBefore(path) ==
    LET order == Preorder(ast, <<>>)
        before == SubSeq(order, 1, IndexOf(order, path) - 1)
        IsIdentifier(p) == NodeAt(ast, p).type = "identifier"
        found == SelectSeq(before, IsIdentifier)
    IN  Distinct([i \in DOMAIN found |-> NodeAt(ast, found[i]).text])

\* The edges the tree gives: from the innermost function enclosing a call
\* expression to the resolved callee; none for a call outside any function.
LexicalGraph ==
    LET order == Range(Preorder(ast, <<>>))
        functions == {p \in order : IsFunction(p)}
        calls == {p \in order : /\ NodeAt(ast, p).type = "call_expression"
                                /\ Enclosing(p) /= <<>>}
        Callee(p) == _get_callee_name(NodeAt(ast, p).children, IdentifiersBefore(p))
        Caller(p) == LexicalName(Enclosing(p)[Len(Enclosing(p))])
    IN  [name \in {LexicalName(p) : p \in functions} |->
            {Callee(p) : p \in {q \in calls : Caller(q) = name /\ Callee(q) /= None}}]

\* C28: at every moment of the normalisation the function stack holds the
\* names of the functions enclosing the node at hand, outermost first (a
\* function's name is pushed when it is entered and popped when it is left);
\* distinct anonymous functions have distinct names; at the end the stack is
\* empty and the call graph holds, for every call expression inside a
\* function, the edge from the innermost enclosing function to the callee,
\* and nothing for calls outside any function.
ProperFunctionStack ==
    /\ pc = "normalize" =>
          function_stack = IF agenda = <<>> THEN <<>> ELSE EnclosingNames(Active.path)
    /\ pc = "normalized" =>
          /\ function_stack = <<>>
          /\ call_graph = LexicalGraph
          /\ LET anonymous == {p \in Range(Preorder(ast, <<>>)) : IsAnonymous(p)}
             IN  \A p, q \in anonymous : p /= q => LexicalName(p) /= LexicalName(q)

\* Two anonymous functions, the second nested in a named function that makes
\* a call of its own after the nested one was left.
AnonymousCallersRecorded ==
    /\ pc = "normalized"
    /\ {"anon_func_0", "anon_func_1", "g"} \subseteq DOMAIN call_graph
    /\ call_graph["anon_func_1"] /= {}
    /\ call_graph["g"] /= {}

\* ------------------------------------------------------------------------
\* Alignment of child lists (StructureComparator._compare_children)
\* ------------------------------------------------------------------------

\* The signature of a node: type, tag, attribute items, and the content of a
\* text node.
Signature(node) ==
    [type |-> Get(node, "type", ""),
     tag |-> Get(node, "tag", ""),
     attrs |-> {<<item[1], item[2]>> : item \in Range(Get(node, "attrs", <<>>))},
     text |-> IF Get(node, "type", "") = "text" THEN Get(node, "content", <<>>) ELSE <<>>]

Signatures(children) == [i \in DOMAIN children |-> Signature(children[i])]

IsPair(comp) == comp.type \in {"match", "different"}

IsElement(node) == Get(node, "type", "") = "element"

\* Whether the comparison of a pair goes on to the two child lists.
Descends(html_node, jsx_node) ==
    /\ IsElement(html_node) /\ IsElement(jsx_node)
    /\ ~(html_node.tag = "script" /\ jsx_node.tag = "script")
    /\ lower(html_node.tag) = lower(jsx_node.tag)
    /\ ~(HasSingleText(html_node.children) /\ HasSingleText(jsx_node.children))

\* The number of entries a compared pair gives: its own, those of the pairs
\* of children with equal signatures, and one for every other child.
RECURSIVE Entries(_, _)
Entries(html_node, jsx_node) ==
    IF ~Descends(html_node, jsx_node) THEN 1
    ELSE LET pairs == MatchedPairs(Signatures(html_node.children),
                                   Signatures(jsx_node.children))
             Sum[P \in SUBSET pairs] ==
                 IF P = {} THEN 0
                 ELSE LET p == CHOOSE x \in P : TRUE
                      IN  Entries(html_node.children[p[1]], jsx_node.children[p[2]])
                          + Sum[P \ {p}]
         IN  1 + Sum[pairs]
               + (Len(html_node.children) - Cardinality(pairs))
               + (Len(jsx_node.children) - Cardinality(pairs))

\* The entries of compare_structures below the one of the two roots.
Nested == Tail(RootComparisons(html_tree, jsx_tree))

\* Only children: two elements of one tag that differ in an attribute.
DifferInAttributes(html_node, jsx_node) ==
    /\ Len(html_node.children) = 1 /\ Len(jsx_node.children) = 1
    /\ IsElement(html_node.children[1]) /\ IsElement(jsx_node.children[1])
    /\ html_node.children[1].tag = jsx_node.children[1].tag
    /\ Signature(html_node.children[1]).attrs /= Signature(jsx_node.children[1]).attrs

EntriesOf(type, side, node) ==
    {i \in DOMAIN Nested : Nested[i].type = type /\ Nested[i][side] = node}

\* C29: below the two roots only children of equal signature are compared
\* with each other; every compared pair of elements has attribute similarity
\* 1.0 and is 'different' only through the single text children of the two;
\* two elements that differ in an attribute give one 'missing' and one
\* 'extra' entry, and every child that is not aligned gives one entry
\* whatever the size of its subtree.
AlignedBySignature ==
    pc = "compared" /\ Truthy(html_tree) /\ Truthy(jsx_tree) =>
        /\ \A i \in DOMAIN Nested :
              IsPair(Nested[i]) =>
                  /\ Signature(Nested[i].html) = Signature(Nested[i].jsx)
                  /\ IsElement(Nested[i].html) => Nested[i].attribute_similarity = One
                  /\ Nested[i].type = "different" =>
                        /\ HasSingleText(Nested[i].html.children)
                        /\ HasSingleText(Nested[i].jsx.children)
                        /\ Nested[i].text_similarity \notin {NoneQ, One}
        /\ Len(Nested) + 1 = Entries(html_tree, jsx_tree)
        /\ \A c \in {html_tree} \cup {Nested[i].html : i \in {j \in DOMAIN Nested : IsPair(Nested[j])}} :
           \A d \in {jsx_tree} \cup {Nested[i].jsx : i \in {j \in DOMAIN Nested : IsPair(Nested[j])}} :
              (/\ c = html_tree <=> d = jsx_tree
               /\ c = html_tree \/ \E i \in DOMAIN Nested :
                                       IsPair(Nested[i]) /\ Nested[i].html = c /\ Nested[i].jsx = d
               /\ Descends(c, d)
               /\ DifferInAttributes(c, d)) =>
                  /\ EntriesOf("missing", "html", c.children[1]) /= {}
                  /\ EntriesOf("extra", "jsx", d.children[1]) /= {}
                  /\ \A i \in DOMAIN Nested :
                        IsPair(Nested[i]) => \/ Nested[i].html /= c.children[1]
                                             \/ Nested[i].jsx /= d.children[1]

\* An element with a child of its own is missing and its counterpart, which
\* differs from it in an attribute only, is extra.
AttributeChangeUnaligned ==
    /\ pc = "compared"
    /\ Len(result.missing_elements) = 1
    /\ Len(result.extra_elements) = 1
    /\ IsElement(result.missing_elements[1])
    /\ IsElement(result.extra_elements[1])
    /\ result.missing_elements[1].tag = result.extra_elements[1].tag
    /\ result.missing_elements[1].children /= <<>>
    /\ result.missing_elements[1].children = result.extra_elements[1].children

\* ------------------------------------------------------------------------
\* compare_css and the blocks of at-rules
\* ------------------------------------------------------------------------

\* The step-by-step resolution returns what resolve_vars computes.
StepwiseResolved ==
    pc = "resolved" => resolved = resolve_vars(css_value, root_vars, {}).out

TopLevelCounts(report) ==
    <<report.css_similarity, report.matching_selectors, report.different_selectors,
      report.missing_selectors, report.extra_selectors>>

\* C30: the css_similarity and the top-level matching, different, missing
\* and extra counts of compare_css are those of the two sheets without their
\* at-rule blocks, and two sheets without top-level rules score 1.0.
TopLevelRulesOnly ==
    pc = "compared" =>
        /\ TopLevelCounts(css_result) =
              TopLevelCounts(compare_css(QualifiedRules(css1), QualifiedRules(css2)))
        /\ QualifiedRules(css1) = <<>> /\ QualifiedRules(css2) = <<>> =>
              css_result.css_similarity = One

====
